---- MODULE Spec2Model ----
(***************************************************************************)
(* CW/Morse capture lifecycle supervisor (routes/morse.py): the session    *)
(* state machine driven by concurrent start / stop / calibrate / status    *)
(* requests, the device registry, the per-attempt capture processes and    *)
(* worker threads, and the start-parameter validators.                     *)
(*                                                                         *)
(* Numbers that are floats in the program are kept in tenths (700.0 Hz is  *)
(* 7000, a threshold multiplier of 2.8 is 28, 14.060 MHz is 140).          *)
(***************************************************************************)
EXTENDS Integers, Sequences, FiniteSets, TLC

\* ------------------------------------------------------------------ bounds
MaxSessions == 2
QueueMax == 1
ControlQueueMax == 1

Requests == {"r1", "r2"}
Devices == {0, 1}
Sessions == 1..MaxSessions
NoDevice == -1
NoSession == 0

\* ------------------------------------------------------ lifecycle constants
MORSE_IDLE == "idle"
MORSE_STARTING == "starting"
MORSE_RUNNING == "running"
MORSE_STOPPING == "stopping"
MORSE_ERROR == "error"

\* ------------------------------------------------------------ request data
\* A JSON value of the request body: a JSON number ("num"), a string holding a
\* decimal literal ("str"), or a string that is no number ("bad"); n in tenths.
Num(n) == [kind |-> "num", n |-> n]
Str(n) == [kind |-> "str", n |-> n]
Bad == [kind |-> "bad", n |-> 0]

\* float(value): succeeds on numbers and decimal literals.
FloatOk(v) == v.kind \in {"num", "str"}
FloatVal(v) == v.n

\* int(value): truncates a JSON number toward zero; accepts a string only when
\* it is an integer literal.
IntOk(v) == v.kind = "num" \/ (v.kind = "str" /\ v.n % 10 = 0)
IntVal(v) == IF v.n >= 0 THEN v.n \div 10 ELSE -((-v.n) \div 10)

_validate_tone_freq(v) == FloatOk(v) /\ 3000 <= FloatVal(v) /\ FloatVal(v) <= 12000

_validate_wpm(v) == IntOk(v) /\ 5 <= IntVal(v) /\ IntVal(v) <= 50

_validate_bandwidth(v) == IntOk(v) /\ IntVal(v) \in {50, 100, 200, 400}

\* str(value or 'auto').strip().lower()
ModeText(s) ==
    CASE s = "" -> "auto"
      [] s = " Manual " -> "manual"
      [] s = "AUTO" -> "auto"
      [] OTHER -> s

_validate_threshold_mode(s) == ModeText(s) \in {"auto", "manual"}

_validate_wpm_mode(s) == ModeText(s) \in {"auto", "manual"}

_validate_threshold_multiplier(v) == FloatOk(v) /\ 11 <= FloatVal(v) /\ FloatVal(v) <= 80

_validate_non_negative_float(v) == FloatOk(v) /\ ~(FloatVal(v) < 0)

_validate_signal_gate(v) == FloatOk(v) /\ 0 <= FloatVal(v) /\ FloatVal(v) <= 10

\* The second try block of start_morse: every validator must pass.
ParamsAccepted(d) ==
    /\ _validate_tone_freq(d.tone_freq)
    /\ _validate_wpm(d.wpm)
    /\ _validate_bandwidth(d.bandwidth_hz)
    /\ _validate_threshold_mode(d.threshold_mode)
    /\ _validate_wpm_mode(d.wpm_mode)
    /\ _validate_threshold_multiplier(d.threshold_multiplier)
    /\ _validate_non_negative_float(d.manual_threshold)
    /\ _validate_non_negative_float(d.threshold_offset)
    /\ _validate_signal_gate(d.signal_gate)

\* The request defaults (data.get(key, default)) on device 0, RTL-SDR, 14.060 MHz.
DefaultData ==
    [device |-> 0, sdr_type |-> "rtlsdr", frequency |-> 140,
     tone_freq |-> Str(7000), wpm |-> Str(150), bandwidth_hz |-> Str(2000),
     threshold_mode |-> "auto", wpm_mode |-> "auto",
     threshold_multiplier |-> Str(28), manual_threshold |-> Str(0),
     threshold_offset |-> Str(0), signal_gate |-> Str(0)]

NoData == [DefaultData EXCEPT !.device = NoDevice, !.sdr_type = "-"]

\* The locals start_morse keeps from a validated body: the float tone_freq and
\* the int wpm as numbers; the other detector parameters play no part later.
Validated(d) ==
    [DefaultData EXCEPT !.device = d.device, !.sdr_type = d.sdr_type,
                        !.frequency = d.frequency,
                        !.tone_freq = Num(FloatVal(d.tone_freq)),
                        !.wpm = Num(10 * IntVal(d.wpm))]

\* can_try_direct_sampling and direct_sampling_attempts; None is written 0.
SdrTypeOf(s) == IF s \in {"rtlsdr", "hackrf"} THEN s ELSE "rtlsdr"

can_try_direct_sampling(d) == SdrTypeOf(d.sdr_type) = "rtlsdr" /\ d.frequency < 240

direct_sampling_attempts(d) == IF can_try_direct_sampling(d) THEN <<2, 1, 0>> ELSE <<0>>


\* A message text. The terminal error of a start whose attempts all failed is
\* its fixed text followed by ' | '.join(attempt_errors): attempts holds the
\* joined entries in order; every other message has none.
Msg(text) == [text |-> text, attempts |-> <<>>]

NoError == Msg("")

\* One entry of attempt_errors: 'attempt i/n (... direct_mode=m): reason'.
AttemptError(idx, of, mode, reason) ==
    [attempt |-> idx, of |-> of, mode |-> mode, error |-> reason]


\* ------------------------------------------- utils/morse.py: MorseDecoder
\* The decode core as constructed by MorseDecoder(sample_rate=8000, wpm=wpm):
\* analysis windows of 160 samples (20 ms), a dit of 60 / wpm windows in
\* manual mode or under wpm_lock, the median of the recorded candidates
\* otherwise. Durations are kept in three-hundredths of a window, which holds
\* the third of a count and every threshold exactly.
MaxSymbol == 4
MaxWindows == 2
\* The length of the deque of dit candidates (32 in the source).
DitObservationsMax == 3

\* The one element of a set of one element.
Only(S) == CHOOSE x \in S : TRUE

Max2(a, b) == IF a >= b THEN a ELSE b
Min2(a, b) == IF a <= b THEN a ELSE b

\* The table in the order of the source, as pairs of code and character.
MORSE_PAIRS ==
    <<<<<<".", "-">>, "A">>,
      <<<<"-", ".", ".", ".">>, "B">>,
      <<<<"-", ".", "-", ".">>, "C">>,
      <<<<"-", ".", ".">>, "D">>,
      <<<<".">>, "E">>,
      <<<<".", ".", "-", ".">>, "F">>,
      <<<<"-", "-", ".">>, "G">>,
      <<<<".", ".", ".", ".">>, "H">>,
      <<<<".", ".">>, "I">>,
      <<<<".", "-", "-", "-">>, "J">>,
      <<<<"-", ".", "-">>, "K">>,
      <<<<".", "-", ".", ".">>, "L">>,
      <<<<"-", "-">>, "M">>,
      <<<<"-", ".">>, "N">>,
      <<<<"-", "-", "-">>, "O">>,
      <<<<".", "-", "-", ".">>, "P">>,
      <<<<"-", "-", ".", "-">>, "Q">>,
      <<<<".", "-", ".">>, "R">>,
      <<<<".", ".", ".">>, "S">>,
      <<<<"-">>, "T">>,
      <<<<".", ".", "-">>, "U">>,
      <<<<".", ".", ".", "-">>, "V">>,
      <<<<".", "-", "-">>, "W">>,
      <<<<"-", ".", ".", "-">>, "X">>,
      <<<<"-", ".", "-", "-">>, "Y">>,
      <<<<"-", "-", ".", ".">>, "Z">>,
      <<<<"-", "-", "-", "-", "-">>, "0">>,
      <<<<".", "-", "-", "-", "-">>, "1">>,
      <<<<".", ".", "-", "-", "-">>, "2">>,
      <<<<".", ".", ".", "-", "-">>, "3">>,
      <<<<".", ".", ".", ".", "-">>, "4">>,
      <<<<".", ".", ".", ".", ".">>, "5">>,
      <<<<"-", ".", ".", ".", ".">>, "6">>,
      <<<<"-", "-", ".", ".", ".">>, "7">>,
      <<<<"-", "-", "-", ".", ".">>, "8">>,
      <<<<"-", "-", "-", "-", ".">>, "9">>,
      <<<<".", "-", ".", "-", ".", "-">>, ".">>,
      <<<<"-", "-", ".", ".", "-", "-">>, ",">>,
      <<<<".", ".", "-", "-", ".", ".">>, "?">>,
      <<<<".", "-", "-", "-", "-", ".">>, "'">>,
      <<<<"-", ".", "-", ".", "-", "-">>, "!">>,
      <<<<"-", ".", ".", "-", ".">>, "/">>,
      <<<<"-", ".", "-", "-", ".">>, "(">>,
      <<<<"-", ".", "-", "-", ".", "-">>, ")">>,
      <<<<".", "-", ".", ".", ".">>, "&">>,
      <<<<"-", "-", "-", ".", ".", ".">>, ":">>,
      <<<<"-", ".", "-", ".", "-", ".">>, ";">>,
      <<<<"-", ".", ".", ".", "-">>, "=">>,
      <<<<".", "-", ".", "-", ".">>, "+">>,
      <<<<"-", ".", ".", ".", ".", "-">>, "-">>,
      <<<<".", ".", "-", "-", ".", "-">>, "_">>,
      <<<<".", "-", ".", ".", "-", ".">>, "\"">>,
      <<<<".", ".", ".", "-", ".", ".", "-">>, "$">>,
      <<<<".", "-", "-", ".", "-", ".">>, "@">>,
      <<<<"-", ".", "-", ".", "-">>, "<CT>">>,
      <<<<".", "-", ".", "-">>, "<AA>">>,
      <<<<".", ".", ".", "-", ".", "-">>, "<SK>">>>>

\* A dict built from pairs keeps the last value given for a key.
LastFor(pairs, key, k, v) ==
    LET last == CHOOSE i \in DOMAIN pairs :
                    /\ pairs[i][k] = key
                    /\ \A j \in DOMAIN pairs : pairs[j][k] = key => j <= i
    IN  pairs[last][v]

\* A faulty table in which the prosign <CT> is written as the character
\* '=', which has a code of its own.
MORSE_TABLE_shared_char ==
    [code \in {MORSE_PAIRS[i][1] : i \in DOMAIN MORSE_PAIRS}
        |-> IF code = <<"-", ".", "-", ".", "-">> THEN "="
            ELSE LastFor(MORSE_PAIRS, code, 1, 2)]

MORSE_TABLE ==
    [code \in {MORSE_PAIRS[i][1] : i \in DOMAIN MORSE_PAIRS}
        |-> LastFor(MORSE_PAIRS, code, 1, 2)]

\* {v: k for k, v in MORSE_TABLE.items()}
CHAR_TO_MORSE ==
    [char \in {MORSE_PAIRS[i][2] : i \in DOMAIN MORSE_PAIRS}
        |-> LastFor(MORSE_PAIRS, char, 2, 1)]

_WARMUP_BLOCKS == 16

\* The words per minute the decoder is constructed with: dits of 4, 2 and
\* 1.2 windows.
Wpms == {15, 30, 50}

\* The decoder takes its dit from the configured speed.
FixedWpm(d) == d.wpm_mode = "manual" \/ d.wpm_lock

\* sorted(obs)[len(obs) // 2]
Median(obs) ==
    CHOOSE x \in {obs[i] : i \in DOMAIN obs} :
        /\ Cardinality({i \in DOMAIN obs : obs[i] < x}) <= Len(obs) \div 2
        /\ Cardinality({i \in DOMAIN obs : obs[i] <= x}) > Len(obs) \div 2

\* The value _effective_dit_blocks returns: (1.2 / wpm) / 0.02 windows with
\* wpm clamped to 5..50 in manual mode or under wpm_lock, the median of the
\* candidates when there are any, the configured dit otherwise; never less
\* than one window.
_effective_dit_blocks(d) ==
    IF FixedWpm(d) THEN Max2(300, 18000 \div Max2(5, Min2(50, d.wpm)))
    ELSE IF d.dit_observations # <<>> THEN Max2(300, Median(d.dit_observations))
    ELSE Max2(300, 18000 \div Max2(d.wpm, 1))

\* The value _effective_dit_blocks leaves in _estimated_wpm, in thousandths.
_estimated_wpm(d) ==
    IF FixedWpm(d) THEN 1000 * Max2(5, Min2(50, d.wpm))
    ELSE IF d.dit_observations # <<>>
    THEN Max2(5000, Min2(60000, 18000000 \div _effective_dit_blocks(d)))
    ELSE 1000 * d.wpm

\* The timing model the last analysed window left in the decoder.
_dah_threshold(d) == (22 * d.dit_blocks) \div 10
_dit_min(d) == Max2(300, (38 * d.dit_blocks) \div 100)
_char_gap(d) == (26 * d.dit_blocks) \div 10
_word_gap(d) == 6 * d.dit_blocks

\* A recorder that does not look at the mode or the lock.
_record_dit_candidate_any_mode(d, blocks) ==
    IF blocks <= 0 \/ blocks > 20 * 300 THEN d
    ELSE [d EXCEPT !.dit_observations =
              IF Len(@) = DitObservationsMax THEN Append(Tail(@), blocks)
              ELSE Append(@, blocks)]

\* _record_dit_candidate: the candidate is appended to the deque, whose
\* oldest entry leaves when it is full.
_record_dit_candidate(d, blocks) ==
    IF blocks <= 0 \/ FixedWpm(d) \/ blocks > 20 * 300 THEN d
    ELSE [d EXCEPT !.dit_observations =
              IF Len(@) = DitObservationsMax THEN Append(Tail(@), blocks)
              ELSE Append(@, blocks)]

_tone_scan_range_hz == 1800
_tone_scan_step_hz == 100
_tone_scan_interval_blocks == 8

\* The counters stop where no comparison of the code can tell them apart:
\* the count of windows stops past the warm-up in a decoder that never scans
\* and keeps its remainder by the scan interval in one that does.
Scanning(d) == d.auto_tone_track /\ ~d.tone_lock

BlocksCap(d) ==
    IF Scanning(d) THEN _WARMUP_BLOCKS + _tone_scan_interval_blocks
    ELSE _WARMUP_BLOCKS + 1
\* A decoder that estimates its dit compares a tone with up to 1.6 times the
\* dah threshold of a dit of 20 windows, and a silence with its word gap.
ToneCap(d) == IF FixedWpm(d) THEN (_dah_threshold(d) + 299) \div 300 ELSE 71
SilenceCap(d) == IF FixedWpm(d) THEN (_word_gap(d) + 299) \div 300 ELSE 121

\* One analysis window, by where its tone-to-noise ratio lies against the
\* hysteresis band: below snr_off, between snr_off and snr_on, at or above
\* snr_on. The amplitudes of a scope event are the levels of its windows.
Levels == {"low", "mid", "high"}

RECURSIVE SeqsUpTo(_, _)
SeqsUpTo(S, n) ==
    IF n = 0 THEN {<<>>}
    ELSE LET shorter == SeqsUpTo(S, n - 1)
         IN  shorter \cup {Append(q, x) : q \in {t \in shorter : Len(t) = n - 1}, x \in S}

\* A PCM chunk is the sequence of the windows it completes.
Chunks == SeqsUpTo(Levels, MaxWindows)

Event(type, value) ==
    [type |-> type, value |-> value, waiting |-> FALSE, amplitudes |-> <<>>,
     tone_on |-> FALSE, wpm |-> 0, dit_ms |-> 0]

ScopeEvent(amplitudes, tone_on) ==
    [Event("scope", "") EXCEPT !.amplitudes = amplitudes, !.tone_on = tone_on]

\* The scope event that ends process_block: 'wpm' is _estimated_wpm as the
\* last window left it, rounded to tenths; 'dit_ms' is the dit that
\* _effective_dit_blocks returns now, in tenths of a millisecond.
DecoderScope(d, amplitudes) ==
    [ScopeEvent(amplitudes, d.tone_on)
        EXCEPT !.wpm = (d.estimated_wpm + 50) \div 100,
               !.dit_ms = (4 * _effective_dit_blocks(d) + 3) \div 6]

_clamp(value, lo, hi) == Min2(hi, Max2(lo, value))

\* Frequencies are in tenths of a hertz.
Hz(f) == 10 * f

\* MorseDecoder.__init__ with wpm_mode='manual' and the arguments the model
\* varies.
MorseDecoder(wpm, tone_freq, auto_tone_track, tone_lock) ==
    [wpm |-> wpm, blocks_processed |-> 0, tone_on |-> FALSE, tone_blocks |-> 0,
     silence_blocks |-> 0, current_symbol |-> <<>>,
     auto_tone_track |-> auto_tone_track, tone_lock |-> tone_lock,
     active_tone_freq |-> _clamp(tone_freq, Hz(300), Hz(1200)),
     tone_anchor_freq |-> _clamp(tone_freq, Hz(300), Hz(1200)),
     wpm_mode |-> "manual", wpm_lock |-> FALSE,
     dit_blocks |-> Max2(300, 18000 \div Max2(wpm, 1)),
     dit_observations |-> <<>>, estimated_wpm |-> 1000 * wpm,
     pending_buffer |-> <<>>]

\* MorseDecoder.__init__ with the tone locked and the speed settings given.
WpmDecoder(wpm, wpm_mode, wpm_lock) ==
    [MorseDecoder(wpm, Hz(700), TRUE, TRUE) EXCEPT !.wpm_mode = wpm_mode,
                                                   !.wpm_lock = wpm_lock]

\* The decoder with the default tone settings.
NewDecoder(wpm) == MorseDecoder(wpm, Hz(700), TRUE, FALSE)

\* What the scan of one window finds: the scanned frequency whose magnitude
\* is the largest and more than 1.12 times that at the active frequency, or
\* NoPeak when the window is mostly noise or no frequency is that much
\* better.
NoPeak == -1

\* The frequencies the scan tries: from lo to hi in steps of 10 Hz.
ScanFreqs(d) ==
    LET lo == _clamp(d.active_tone_freq - _tone_scan_range_hz, Hz(300), Hz(1200))
        hi == _clamp(d.active_tone_freq + _tone_scan_range_hz, Hz(300), Hz(1200))
    IN  {lo + k * _tone_scan_step_hz :
            k \in 0..((hi - lo) \div _tone_scan_step_hz)}

\* 0.35 * delta, to the nearest tenth of a hertz.
Smooth(delta) ==
    IF delta >= 0 THEN (35 * delta + 50) \div 100
    ELSE 0 - ((35 * (0 - delta) + 50) \div 100)

\* A faulty tracker that moves all the way to the best frequency.
_estimate_tone_frequency_jumps(d, best_freq) ==
    IF ~d.auto_tone_track \/ d.tone_lock \/ best_freq = NoPeak
    THEN d.active_tone_freq
    ELSE best_freq

\* _estimate_tone_frequency: the active frequency after the scan.
_estimate_tone_frequency(d, best_freq) ==
    IF ~d.auto_tone_track \/ d.tone_lock \/ best_freq = NoPeak
    THEN d.active_tone_freq
    ELSE LET delta == _clamp(best_freq - d.active_tone_freq, 0 - Hz(30), Hz(30))
             smoothed == _clamp(d.active_tone_freq + Smooth(delta),
                                Max2(Hz(300), d.tone_anchor_freq - Hz(240)),
                                Min2(Hz(1200), d.tone_anchor_freq + Hz(240)))
             moved == IF smoothed >= d.active_tone_freq
                      THEN smoothed - d.active_tone_freq
                      ELSE d.active_tone_freq - smoothed
         IN  IF moved >= 25 THEN smoothed ELSE d.active_tone_freq

\* A faulty reset that leaves the tone state as it was.
reset_calibration_keeps_tone(d) ==
    [d EXCEPT !.blocks_processed = 0, !.tone_blocks = 0, !.silence_blocks = 0,
              !.current_symbol = <<>>, !.dit_observations = <<>>,
              !.estimated_wpm = 1000 * d.wpm]

\* A recalibration that keeps the dit candidates.
reset_calibration_keeps_candidates(d) ==
    [d EXCEPT !.blocks_processed = 0, !.tone_on = FALSE, !.tone_blocks = 0,
              !.silence_blocks = 0, !.current_symbol = <<>>,
              !.estimated_wpm = 1000 * d.wpm]

reset_calibration(d) ==
    [d EXCEPT !.blocks_processed = 0, !.tone_on = FALSE, !.tone_blocks = 0,
              !.silence_blocks = 0, !.current_symbol = <<>>,
              !.dit_observations = <<>>, !.estimated_wpm = 1000 * d.wpm]

\* A faulty lookup that marks a symbol it does not know.
_decode_symbol_marks_unknown(symbol) ==
    <<Event("morse_char", IF symbol \in DOMAIN MORSE_TABLE THEN MORSE_TABLE[symbol]
                          ELSE "?")>>

_decode_symbol(symbol) ==
    IF symbol \in DOMAIN MORSE_TABLE
    THEN <<Event("morse_char", MORSE_TABLE[symbol])>>
    ELSE <<>>

\* A detector with the one threshold snr_on for both states.
ToneDetected_one_threshold(d, n, lvl) == n > _WARMUP_BLOCKS /\ lvl = "high"

\* tone_detected of window n: never during the warm-up; afterwards the ratio
\* is compared with snr_off while the tone is on and with snr_on while it is
\* off. A window the signal gate rejects is a window below snr_off.
ToneDetected(d, n, lvl) ==
    IF n <= _WARMUP_BLOCKS THEN FALSE
    ELSE IF d.tone_on THEN lvl \in {"mid", "high"} ELSE lvl = "high"

\* One pass of the window loop of process_block: the decoder after the window
\* and the events the window appended.
\* lvl is the level of the window once the detector is tuned, peak what the
\* scan of the window finds.
ScannedWindow(d, lvl, peak) ==
    LET n == IF d.blocks_processed + 1 <= BlocksCap(d) THEN d.blocks_processed + 1
             ELSE IF Scanning(d)
             THEN d.blocks_processed + 1 - _tone_scan_interval_blocks
             ELSE d.blocks_processed
        tone_detected == ToneDetected(d, n, lvl)
        scans == /\ Scanning(d)
                 /\ n > _WARMUP_BLOCKS
                 /\ n % _tone_scan_interval_blocks = 0
        c == [d EXCEPT !.blocks_processed = n,
                       !.active_tone_freq =
                           IF scans THEN _estimate_tone_frequency(d, peak) ELSE @,
                       !.dit_blocks = _effective_dit_blocks(d),
                       !.estimated_wpm = _estimated_wpm(d)]
    IN  CASE tone_detected /\ ~d.tone_on ->
               LET silence_count == d.silence_blocks
                   up == [c EXCEPT !.tone_on = TRUE, !.silence_blocks = 0,
                                   !.tone_blocks = 0]
               IN  IF d.current_symbol # <<>> /\ silence_count * 300 >= _char_gap(c)
                   THEN [d |-> [up EXCEPT !.current_symbol = <<>>],
                         ev |-> _decode_symbol(d.current_symbol)
                                \o (IF silence_count * 300 >= _word_gap(c)
                                    THEN <<Event("morse_space", ""),
                                           Event("morse_gap", "word")>>
                                    ELSE <<Event("morse_gap", "char")>>)]
                   ELSE IF /\ silence_count >= 1
                           /\ silence_count * 300 * 100 <= _char_gap(c) * 95
                   THEN [d |-> _record_dit_candidate(up, silence_count * 300),
                         ev |-> <<>>]
                   ELSE [d |-> up, ev |-> <<>>]
          [] ~tone_detected /\ d.tone_on ->
               LET tone_count == Max2(1, d.tone_blocks)
                   element == IF tone_count * 300 >= _dah_threshold(c) THEN "-"
                              ELSE IF tone_count * 300 >= _dit_min(c) THEN "." ELSE ""
                   down == [c EXCEPT !.tone_on = FALSE, !.tone_blocks = 0,
                                     !.silence_blocks = 0]
                   keyed == [down EXCEPT !.current_symbol = Append(@, element)]
               IN  IF element # ""
                   THEN [d |-> IF element = "."
                               THEN _record_dit_candidate(keyed, tone_count * 300)
                               ELSE IF tone_count * 300 * 10 <= _dah_threshold(c) * 16
                               THEN _record_dit_candidate(keyed, tone_count * 100)
                               ELSE keyed,
                         ev |-> <<Event("morse_element", element)>>]
                   ELSE [d |-> down, ev |-> <<>>]
          [] tone_detected /\ d.tone_on ->
               [d |-> [c EXCEPT !.tone_blocks = Min2(@ + 1, ToneCap(d))], ev |-> <<>>]
          [] OTHER ->
               [d |-> [c EXCEPT !.silence_blocks = Min2(@ + 1, SilenceCap(d))],
                ev |-> <<>>]

\* A window in which no frequency is better than the one the detector is
\* tuned to.
Window(d, lvl) == ScannedWindow(d, lvl, NoPeak)

RECURSIVE Windows(_, _, _)
Windows(d, ev, chunk) ==
    IF chunk = <<>> THEN [d |-> d, ev |-> ev]
    ELSE IF Len(chunk) = 1
    THEN Only({[d |-> w.d, ev |-> ev \o w.ev] : w \in {Window(d, chunk[1])}})
    ELSE Only({Windows(half.d, half.ev, SubSeq(chunk, Len(chunk) \div 2 + 1, Len(chunk))) :
                   half \in {Windows(d, ev, SubSeq(chunk, 1, Len(chunk) \div 2))}})

\* process_block: every complete window of the chunk, then one scope event
\* when at least one window was analysed.
process_block(d, chunk) ==
    LET w == Windows(d, <<>>, chunk)
    IN  [d |-> [w.d EXCEPT !.estimated_wpm =
                    IF chunk = <<>> THEN @ ELSE _estimated_wpm(w.d)],
         ev |-> IF chunk = <<>> THEN w.ev
                ELSE Append(w.ev, DecoderScope(w.d, chunk))]

\* A faulty flush that resolves the pending symbol and keeps it.
flush_keeps_symbol(d) ==
    LET closing == d.tone_on /\ d.tone_blocks * 300 >= _dit_min(d)
        element == IF d.tone_blocks * 300 >= _dah_threshold(d) THEN "-" ELSE "."
        symbol == IF closing THEN Append(d.current_symbol, element)
                  ELSE d.current_symbol
    IN  [d |-> [d EXCEPT !.tone_on = FALSE, !.tone_blocks = 0, !.silence_blocks = 0,
                         !.current_symbol = symbol],
         ev |-> (IF closing THEN <<Event("morse_element", element)>> ELSE <<>>)
                \o (IF symbol # <<>> THEN _decode_symbol(symbol) ELSE <<>>)]

\* A faulty flush that reports the end of the stream as a word gap.
flush_adds_space(d) ==
    LET closing == d.tone_on /\ d.tone_blocks * 300 >= _dit_min(d)
        element == IF d.tone_blocks * 300 >= _dah_threshold(d) THEN "-" ELSE "."
        symbol == IF closing THEN Append(d.current_symbol, element)
                  ELSE d.current_symbol
    IN  [d |-> [d EXCEPT !.tone_on = FALSE, !.tone_blocks = 0, !.silence_blocks = 0,
                         !.current_symbol = <<>>],
         ev |-> (IF closing THEN <<Event("morse_element", element)>> ELSE <<>>)
                \o (IF symbol # <<>>
                    THEN _decode_symbol(symbol) \o <<Event("morse_space", "")>>
                    ELSE <<>>)]

\* A faulty flush that resolves the pending symbol before it closes the
\* tone in progress.
flush_symbol_first(d) ==
    LET closing == d.tone_on /\ d.tone_blocks * 300 >= _dit_min(d)
        element == IF d.tone_blocks * 300 >= _dah_threshold(d) THEN "-" ELSE "."
    IN  [d |-> [d EXCEPT !.tone_on = FALSE, !.tone_blocks = 0, !.silence_blocks = 0,
                         !.current_symbol = <<>>],
         ev |-> (IF d.current_symbol # <<>> THEN _decode_symbol(d.current_symbol)
                 ELSE <<>>)
                \o (IF closing THEN <<Event("morse_element", element)>> ELSE <<>>)]

flush(d) ==
    LET closing == d.tone_on /\ d.tone_blocks * 300 >= _dit_min(d)
        element == IF d.tone_blocks * 300 >= _dah_threshold(d) THEN "-" ELSE "."
        symbol == IF closing THEN Append(d.current_symbol, element)
                  ELSE d.current_symbol
    IN  [d |-> [d EXCEPT !.tone_on = FALSE, !.tone_blocks = 0, !.silence_blocks = 0,
                         !.current_symbol = <<>>],
         ev |-> (IF closing THEN <<Event("morse_element", element)>> ELSE <<>>)
                \o (IF symbol # <<>> THEN _decode_symbol(symbol) ELSE <<>>)]


\* ------------------------------------------------------------------- state
VARIABLES
    morse_state,            \* lifecycle state
    morse_state_message,    \* text shown by the status query
    morse_last_error,       \* text of the last terminal failure, "" when none
    morse_session_id,       \* counter, incremented by every successful claim
    morse_active_device,    \* device index the subsystem believes it holds
    morse_runtime_config,   \* configuration committed by the last successful start
    morse_process,          \* app_module.morse_process: published attempt, or none
    morse_workers,          \* the five published handles (stop event, control
                            \* queue, decoder / stderr / relay worker)
    morse_queue,            \* app_module.morse_queue, the outgoing event queue
    morse_lock,             \* app_module.morse_lock: its holder, or "free"
    sdr_device_registry,    \* device index -> owner ("" when unclaimed)
    att,                    \* session -> the resources of its current attempt
    req,                    \* request thread -> handler locals and position
    decoder,                \* the MorseDecoder of a decoder thread
    returned,               \* events of the last direct call on the decoder
    stream,                 \* the capture process behind the thread's input
    thread,                 \* morse_decoder_thread: its locals and both loops
    output_queue            \* the queue the decoder thread publishes to

route_vars == <<morse_state, morse_state_message, morse_last_error, morse_session_id,
                morse_active_device, morse_runtime_config, morse_process,
                morse_workers, morse_queue, morse_lock, sdr_device_registry, att, req>>

thread_vars == <<decoder, returned, stream, thread, output_queue>>

vars == <<route_vars, thread_vars>>

\* One attempt's resources: the two capture processes ("none", "running",
\* "exited" by itself, or "terminated" by safe_terminate), the stop event
\* and the control queue shared with its worker threads. device and mode are
\* the device index and direct-sampling mode of the rtl_fm command, attempt the
\* attempt index, terms the number of teardown rounds applied. The worker threads carry no state of their own here: whether
\* one has ended when it is joined or polled is an outcome of timing.
NoBundle ==
    [rtl |-> "none", mm |-> "none", stop_event |-> FALSE, control_queue |-> <<>>,
     device |-> NoDevice, mode |-> 0, attempt |-> 0, terms |-> 0,
     pcm_ready_event |-> FALSE, failed |-> {}]

EmptyConfig ==
    [tone_freq |-> 0, wpm |-> 0, direct_sampling_mode |-> 0, startup_waiting |-> FALSE,
     startup_warning |-> "", set |-> FALSE]

InitReq ==
    [op |-> "none", pc |-> "idle", resp |-> "", data |-> NoData, sid |-> NoSession,
     idx |-> 0, cur |-> FALSE, waiting |-> FALSE, errors |-> <<>>, exc |-> "",
     proc |-> NoSession, workers |-> NoSession, active_device |-> NoDevice,
     found |-> "", alive |-> {}, released |-> FALSE, msg |-> Msg("")]

InitRoutes ==
    /\ morse_state = MORSE_IDLE
    /\ morse_state_message = Msg("Idle")
    /\ morse_last_error = NoError
    /\ morse_session_id = 0
    /\ morse_active_device = NoDevice
    /\ morse_runtime_config = EmptyConfig
    /\ morse_process = NoSession
    /\ morse_workers = NoSession
    /\ morse_queue = <<>>
    /\ morse_lock = "free"
    /\ sdr_device_registry = [d \in Devices |-> ""]
    /\ att = [s \in Sessions |-> NoBundle]
    /\ req = [r \in Requests |-> InitReq]

\* ----------------------------------------------------------------- helpers
StatusPayload(state, sid) == [type |-> "status", state |-> state, sid |-> sid]

InfoPayload(text) == [type |-> "info", state |-> text, sid |-> 0]

\* put_nowait under contextlib.suppress(queue.Full)
put_nowait(q, e) == IF Len(q) < QueueMax THEN Append(q, e) ELSE q

_queue_morse_event(q, e) == put_nowait(q, e)

\* _set_state: q is the queue content the status event is appended to.
_set_state(state, message, enqueue, q, sid) ==
    /\ morse_state' = state
    /\ morse_state_message' = message
    /\ morse_queue' = IF enqueue THEN put_nowait(q, StatusPayload(state, sid)) ELSE q

_drain_queue(q) == <<>>

\* app.claim_sdr_device / release_sdr_device: an exclusive registry.
claim_error(reg, d) == reg[d] # ""

claim_sdr_device(reg, d, owner) == IF claim_error(reg, d) THEN reg ELSE [reg EXCEPT ![d] = owner]

release_sdr_device(reg, d) == IF d \in Devices THEN [reg EXCEPT ![d] = ""] ELSE reg

\* The process runs (it has neither ended nor been terminated).
ProcAlive(p) == p = "running"

\* A request thread takes a new request when it holds none.
Free(r) == req[r].pc \in {"idle", "done"}

Set(r, rec) == req' = [req EXCEPT ![r] = rec]

\* The handler returns: only the response stays until the thread is reused.
Finish(r, op, resp) == [InitReq EXCEPT !.op = op, !.pc = "done", !.resp = resp]

Others(r) == UNCHANGED <<morse_state, morse_state_message, morse_last_error,
                         morse_session_id, morse_active_device, morse_runtime_config,
                         morse_process, morse_workers, morse_queue, morse_lock,
                         sdr_device_registry, att>>


\* ------------------------------------------------------------- start_morse
\* A start request arrives with its JSON body.
StartMorse_Request(r, inputs) ==
    /\ Free(r)
    /\ \E d \in inputs : Set(r, [InitReq EXCEPT !.op = "start", !.pc = "validate",
                                               !.data = d])
    /\ Others(r)
    /\ UNCHANGED thread_vars

\* A faulty early return: the event queue is drained before the checks.
Reject_drained(r, resp) ==
    /\ Set(r, Finish(r, "start", resp))
    /\ morse_queue' = _drain_queue(morse_queue)
    /\ UNCHANGED <<morse_state, morse_state_message, morse_last_error, morse_session_id,
                   morse_active_device, morse_runtime_config, morse_process,
                   morse_workers, morse_lock, sdr_device_registry, att>>

\* An early return of start_morse: nothing but the response.
Reject(r, resp) ==
    /\ Set(r, Finish(r, "start", resp))
    /\ Others(r)

\* Parameter validation and, with morse_lock held, the conflict check, the
\* device claim and the session bookkeeping.
StartMorse_Begin(r) ==
    /\ req[r].pc = "validate"
    /\ LET d == req[r].data IN
        IF ~ParamsAccepted(d)
        THEN Reject(r, "param_error")
        ELSE /\ morse_lock = "free"
             /\ IF morse_state \in {MORSE_STARTING, MORSE_RUNNING, MORSE_STOPPING}
                THEN Reject(r, "conflict")
                ELSE IF claim_error(sdr_device_registry, d.device)
                THEN Reject(r, "device_busy")
                ELSE /\ morse_session_id < MaxSessions
                     /\ sdr_device_registry' =
                            claim_sdr_device(sdr_device_registry, d.device, "morse")
                     /\ morse_active_device' = d.device
                     /\ morse_last_error' = NoError
                     /\ morse_session_id' = morse_session_id + 1
                     /\ _set_state(MORSE_STARTING, Msg("Starting decoder..."), TRUE,
                                   _drain_queue(morse_queue), morse_session_id + 1)
                     /\ Set(r, [InitReq EXCEPT !.op = "start", !.pc = "attempt",
                                               !.data = Validated(d),
                                               !.sid = morse_session_id + 1, !.idx = 1])
                     /\ UNCHANGED <<morse_runtime_config, morse_process, morse_workers,
                                    morse_lock, att>>
    /\ UNCHANGED thread_vars

\* The message of a start whose attempts are exhausted: the fixed text, then
\* the attempt errors joined in order.
NoPcmMessage(errors) ==
    [Msg("SDR capture started but no PCM stream was received.")
        EXCEPT !.attempts = errors]

\* Locals of a start between its failure block's two state changes; msg is the
\* message the response will carry.
Failing(r, msg) ==
    [InitReq EXCEPT !.op = "start", !.pc = "fail_idle", !.sid = req[r].sid,
                    !.data = req[r].data, !.idx = req[r].idx, !.msg = msg]

\* The terminal-failure block: release morse_active_device, record the error and
\* publish Error. The lock stays held until StartMorse_FailIdle sets Idle.
FailBlock(r, msg) ==
    /\ morse_lock = "free"
    /\ sdr_device_registry' = release_sdr_device(sdr_device_registry, morse_active_device)
    /\ morse_active_device' = NoDevice
    /\ morse_last_error' = msg
    /\ _set_state(MORSE_ERROR, msg, TRUE, morse_queue, morse_session_id)
    /\ morse_lock' = r
    /\ Set(r, Failing(r, msg))
    /\ UNCHANGED <<morse_session_id, morse_runtime_config, morse_process, morse_workers>>

StartMorse_FailIdle(r) ==
    /\ req[r].pc = "fail_idle"
    /\ morse_lock = r
    /\ _set_state(MORSE_IDLE, Msg("Idle"), TRUE, morse_queue, morse_session_id)
    /\ morse_lock' = "free"
    /\ att' = [att EXCEPT ![req[r].sid] = NoBundle]
    /\ Set(r, Finish(r, "start", "error"))
    /\ UNCHANGED <<morse_last_error, morse_session_id, morse_active_device,
                   morse_runtime_config, morse_process, morse_workers,
                   sdr_device_registry>>
    /\ UNCHANGED thread_vars

\* A faulty test that lets any attempt continue without PCM.
is_last_attempt_any(r) == req[r].idx >= 1

is_last_attempt(r) == req[r].idx = Len(direct_sampling_attempts(req[r].data))

\* What one pass of the attempt loop leaves behind, by how it went:
\*   "no_tool"    multimon-ng is not installed (seen on the first pass);
\*   "rtl_raise"  Popen(rtl_cmd) raised: nothing was created;
\*   "mm_raise"   Popen(multimon_cmd) raised: rtl_fm runs;
\*   "pcm"        first PCM arrived before the deadline;
\*   "rtl_exited", "mm_exited"  a process ended during the startup wait;
\*   "timeout"    the deadline passed with both processes alive;
\*   "timeout_gone"  the deadline passed and rtl_fm ended right after it.
Spawned(out, device, mode, idx) ==
    [NoBundle EXCEPT
        !.rtl = CASE out = "rtl_raise" -> "none"
                  [] out \in {"rtl_exited", "timeout_gone"} -> "exited"
                  [] OTHER -> "running",
        !.mm = CASE out \in {"rtl_raise", "mm_raise"} -> "none"
                 [] out = "mm_exited" -> "exited"
                 [] OTHER -> "running",
        !.device = device, !.mode = mode, !.attempt = idx,
        !.pcm_ready_event = (out = "pcm")]

startup_error(out) == IF out = "timeout_gone" THEN "timeout" ELSE out

\* One pass of the attempt loop up to its verdict: the tool lookup (first pass),
\* launch of both processes and the workers, the startup wait, and the decision.
StartMorse_Attempt(r, outcomes) ==
    /\ req[r].pc = "attempt"
    /\ LET s == req[r].sid
           idx == req[r].idx
           mode == direct_sampling_attempts(req[r].data)[idx]
           cmd == _queue_morse_event(morse_queue, InfoPayload("cmd"))
       IN
       \/ /\ idx = 1
          /\ "no_tool" \in outcomes
          /\ FailBlock(r, Msg("multimon-ng not found"))
          /\ UNCHANGED att
       \/ \E out \in outcomes \cap {"rtl_raise", "mm_raise"},
             kind \in {"Tool not found", "exception"} :
             /\ att' = [att EXCEPT ![s] = Spawned(out, req[r].data.device, mode, idx)]
             /\ morse_queue' = cmd
             /\ Set(r, [InitReq EXCEPT !.op = "start", !.pc = "exc_fail",
                                       !.sid = s, !.data = req[r].data,
                                       !.idx = idx, !.cur = (out = "mm_raise"),
                                       !.exc = kind])
             /\ UNCHANGED <<morse_state, morse_state_message, morse_last_error,
                            morse_session_id, morse_active_device, morse_runtime_config,
                            morse_process, morse_workers, morse_lock, sdr_device_registry>>
       \/ \E out \in outcomes \cap {"pcm", "rtl_exited", "mm_exited", "timeout",
                                      "timeout_gone"} :
             /\ att' = [att EXCEPT ![s] = Spawned(out, req[r].data.device, mode, idx)]
             /\ IF out = "pcm"
                THEN /\ Set(r, [req[r] EXCEPT !.pc = "commit", !.cur = TRUE])
                     /\ morse_queue' = cmd
                ELSE IF is_last_attempt(r) /\ out = "timeout"
                THEN /\ Set(r, [req[r] EXCEPT !.pc = "commit", !.cur = TRUE,
                                              !.waiting = TRUE])
                     /\ morse_queue' = _queue_morse_event(cmd, InfoPayload("waiting for PCM"))
                ELSE /\ Set(r, [req[r] EXCEPT !.pc = "cleanup", !.cur = TRUE,
                                              !.errors = Append(@,
                                                  AttemptError(idx,
                                                      Len(direct_sampling_attempts(req[r].data)),
                                                      mode, startup_error(out)))])
                     /\ morse_queue' = _queue_morse_event(cmd, InfoPayload("attempt failed"))
             /\ UNCHANGED <<morse_state, morse_state_message, morse_last_error,
                            morse_session_id, morse_active_device, morse_runtime_config,
                            morse_process, morse_workers, morse_lock, sdr_device_registry>>
    /\ UNCHANGED thread_vars

\* utils.process.safe_terminate: terminate, wait, then kill. A process already
\* gone is left alone.
safe_terminate(p) == IF p = "running" THEN "terminated" ELSE p

\* The teardown sequence shared by _cleanup_attempt and stop_morse: stop event,
\* shutdown message, pipes closed, both processes terminated, threads joined.
Teardown(b) ==
    [b EXCEPT !.stop_event = TRUE,
              !.control_queue = IF Len(@) < ControlQueueMax
                                THEN Append(@, "shutdown") ELSE @,
              !.rtl = safe_terminate(@),
              !.mm = safe_terminate(@),
              !.terms = @ + 1]

\* A faulty cleanup that leaves the failed attempt's resources as they are.
_cleanup_attempt_skipped(b, has) == b

_cleanup_attempt(b, has) == IF has THEN Teardown(b) ELSE b

\* A failed attempt is torn down; then the next pass, or after the last pass
\* the terminal-failure block.
StartMorse_Cleanup(r) ==
    /\ req[r].pc = "cleanup"
    /\ att' = [att EXCEPT ![req[r].sid] = _cleanup_attempt(@, req[r].cur)]
    /\ IF is_last_attempt(r)
       THEN /\ FailBlock(r, NoPcmMessage(req[r].errors))
       ELSE /\ Set(r, [req[r] EXCEPT !.pc = "attempt", !.cur = FALSE, !.idx = @ + 1])
            /\ UNCHANGED <<morse_state, morse_state_message, morse_last_error,
                           morse_session_id, morse_active_device, morse_runtime_config,
                           morse_process, morse_workers, morse_queue, morse_lock,
                           sdr_device_registry>>
    /\ UNCHANGED thread_vars

\* except FileNotFoundError / except Exception: teardown, then the failure block.
StartMorse_ExcFail(r) ==
    /\ req[r].pc = "exc_fail"
    /\ att' = [att EXCEPT ![req[r].sid] = _cleanup_attempt(@, req[r].cur)]
    /\ FailBlock(r, Msg(req[r].exc))
    /\ UNCHANGED thread_vars

CommittedConfig(r) ==
    [tone_freq |-> FloatVal(req[r].data.tone_freq),
     wpm |-> IntVal(req[r].data.wpm),
     direct_sampling_mode |-> att[req[r].sid].mode,
     startup_waiting |-> req[r].waiting,
     startup_warning |-> IF req[r].waiting THEN startup_error("timeout") ELSE "",
     set |-> TRUE]

\* with morse_lock: publish the attempt's handles and enter Running.
StartMorse_Commit(r) ==
    /\ req[r].pc = "commit"
    /\ morse_lock = "free"
    /\ morse_process' = req[r].sid
    /\ morse_workers' = req[r].sid
    /\ morse_runtime_config' = CommittedConfig(r)
    /\ _set_state(MORSE_RUNNING, Msg("Listening"), TRUE, morse_queue, morse_session_id)
    /\ Set(r, Finish(r, "start", "started"))
    /\ UNCHANGED <<morse_last_error, morse_session_id, morse_active_device, morse_lock,
                   sdr_device_registry, att>>
    /\ UNCHANGED thread_vars

\* -------------------------------------------------------------- stop_morse
\* A faulty 'not_running' branch: _set_state with its default enqueue=True.
NotRunning_enqueued(r) ==
    /\ _set_state(MORSE_IDLE, Msg("Idle"), TRUE, morse_queue, morse_session_id)
    /\ Set(r, Finish(r, "stop", "not_running"))
    /\ UNCHANGED <<morse_last_error, morse_session_id, morse_active_device,
                   morse_runtime_config, morse_process, morse_workers,
                   morse_lock, sdr_device_registry, att>>

\* Nothing to stop: state forced to Idle without a status event.
NotRunning(r) ==
    /\ _set_state(MORSE_IDLE, Msg("Idle"), FALSE, morse_queue, morse_session_id)
    /\ Set(r, Finish(r, "stop", "not_running"))
    /\ UNCHANGED <<morse_last_error, morse_session_id, morse_active_device,
                   morse_runtime_config, morse_process, morse_workers,
                   morse_lock, sdr_device_registry, att>>

\* with morse_lock: already stopping / nothing to stop / detach the handles.
\* found is the lifecycle state the stop met when it detached.
StopMorse_Detach(r) ==
    /\ Free(r)
    /\ morse_lock = "free"
    /\ IF morse_state = MORSE_STOPPING
       THEN /\ Set(r, Finish(r, "stop", "stopping"))
            /\ Others(r)
       ELSE IF morse_process = NoSession /\ morse_workers = NoSession
       THEN NotRunning(r)
       ELSE /\ _set_state(MORSE_STOPPING, Msg("Stopping decoder..."), TRUE, morse_queue,
                          morse_session_id)
            /\ morse_process' = NoSession
            /\ morse_workers' = NoSession
            /\ Set(r, [InitReq EXCEPT !.op = "stop", !.pc = "teardown",
                                      !.proc = morse_process, !.workers = morse_workers,
                                      !.active_device = morse_active_device,
                                      !.found = morse_state])
            /\ UNCHANGED <<morse_last_error, morse_session_id, morse_active_device,
                           morse_runtime_config, morse_lock, sdr_device_registry, att>>
    /\ UNCHANGED thread_vars

\* Outside the lock: stop event, shutdown message, pipes closed, processes
\* terminated, the three joins (each may time out), and the device release.
StopMorse_Teardown(r) ==
    /\ req[r].pc = "teardown"
    /\ att' = [att EXCEPT ![req[r].proc] = Teardown(@)]
    /\ Set(r, [req[r] EXCEPT !.pc = "set_idle",
                             !.released = (req[r].active_device # NoDevice)])
    /\ sdr_device_registry' = release_sdr_device(sdr_device_registry, req[r].active_device)
    /\ UNCHANGED <<morse_state, morse_state_message, morse_last_error, morse_session_id,
                   morse_active_device, morse_runtime_config, morse_process,
                   morse_workers, morse_queue, morse_lock>>
    /\ UNCHANGED thread_vars

\* What may still be alive after the teardown: any worker thread (its join
\* timed out) and any process safe_terminate had to act on (poll() still None).
MayLinger(b) ==
    {"relay_thread", "decoder_thread", "stderr_thread"}
    \cup {x \in {"rtl_process"} : b.rtl = "terminated"}
    \cup {x \in {"multimon_process"} : b.mm = "terminated"}

\* The alive diagnostic, then with morse_lock: forget the device, enter Idle;
\* then the 'stopped' event. stragglers are the join / poll outcomes considered.
StopMorse_Idle(r, stragglers) ==
    /\ req[r].pc = "set_idle"
    /\ morse_lock = "free"
    /\ morse_active_device' = NoDevice
    /\ morse_state' = MORSE_IDLE
    /\ morse_state_message' = Msg("Stopped")
    /\ morse_queue' = put_nowait(put_nowait(morse_queue,
                                            StatusPayload(MORSE_IDLE, morse_session_id)),
                                 StatusPayload("stopped", 0))
    /\ att' = [att EXCEPT ![req[r].proc] = NoBundle]
    /\ \E alive_after \in stragglers :
          /\ alive_after \subseteq MayLinger(att[req[r].proc])
          /\ Set(r, [Finish(r, "stop", "stopped") EXCEPT
                        !.alive = alive_after, !.released = req[r].released])
    /\ UNCHANGED <<morse_last_error, morse_session_id, morse_runtime_config,
                   morse_process, morse_workers, morse_lock, sdr_device_registry>>
    /\ UNCHANGED thread_vars

\* --------------------------------------------------- calibrate and status
CalibrateMorse(r) ==
    /\ Free(r)
    /\ morse_lock = "free"
    /\ IF morse_state # MORSE_RUNNING \/ morse_workers = NoSession
       THEN /\ Set(r, Finish(r, "calibrate", "not_running"))
            /\ Others(r)
       ELSE /\ att' = [att EXCEPT ![morse_workers].control_queue =
                          IF Len(@) < ControlQueueMax THEN Append(@, "reset") ELSE @]
            /\ morse_queue' = put_nowait(morse_queue, InfoPayload("reset requested"))
            /\ Set(r, Finish(r, "calibrate", "ok"))
            /\ UNCHANGED <<morse_state, morse_state_message, morse_last_error,
                           morse_session_id, morse_active_device, morse_runtime_config,
                           morse_process, morse_workers, morse_lock, sdr_device_registry>>
    /\ UNCHANGED thread_vars

MorseStatus(r) ==
    /\ Free(r)
    /\ morse_lock = "free"
    /\ Set(r, Finish(r, "status", "status"))
    /\ Others(r)
    /\ UNCHANGED thread_vars

\* ------------------------------------------------------------- environment
\* A capture process ends by itself.
ProcExit(s) ==
    /\ \/ /\ att[s].rtl = "running"
          /\ att' = [att EXCEPT ![s].rtl = "exited"]
       \/ /\ att[s].mm = "running"
          /\ att' = [att EXCEPT ![s].mm = "exited"]
    /\ UNCHANGED <<morse_state, morse_state_message, morse_last_error, morse_session_id,
                   morse_active_device, morse_runtime_config, morse_process,
                   morse_workers, morse_queue, morse_lock, sdr_device_registry, req>>
    /\ UNCHANGED thread_vars

\* The relay loop takes a control message: 'reset' is applied and reported,
\* 'shutdown' sets the stop event.
RelayControl(s) ==
    /\ att[s].rtl = "running"
    /\ ~att[s].stop_event
    /\ "relay" \notin att[s].failed
    /\ att[s].control_queue # <<>>
    /\ LET cmd == Head(att[s].control_queue) IN
       /\ att' = [att EXCEPT ![s].control_queue = Tail(@),
                             ![s].stop_event = (cmd = "shutdown")]
       /\ morse_queue' = IF cmd = "reset"
                         THEN _queue_morse_event(morse_queue, InfoPayload("reset applied"))
                         ELSE morse_queue
    /\ UNCHANGED <<morse_state, morse_state_message, morse_last_error, morse_session_id,
                   morse_active_device, morse_runtime_config, morse_process,
                   morse_workers, morse_lock, sdr_device_registry, req>>
    /\ UNCHANGED thread_vars

\* An unexpected exception inside a worker loop of a launched attempt. The
\* relay thread logs it and closes its pipe; the multimon output thread
\* publishes an 'error' event and closes its descriptor. Either thread is gone
\* afterwards; failed records which.
RunnerLoopError(s) ==
    /\ att[s].rtl # "none" /\ att[s].mm # "none"
    /\ ~att[s].stop_event
    /\ \/ /\ "relay" \notin att[s].failed
          /\ att' = [att EXCEPT ![s].failed = @ \cup {"relay"}]
          /\ UNCHANGED morse_queue
       \/ /\ "output" \notin att[s].failed
          /\ att' = [att EXCEPT ![s].failed = @ \cup {"output"}]
          /\ morse_queue' = _queue_morse_event(morse_queue,
                                [type |-> "error", state |-> "multimon output error",
                                 sid |-> 0])
    /\ UNCHANGED <<morse_state, morse_state_message, morse_last_error, morse_session_id,
                   morse_active_device, morse_runtime_config, morse_process,
                   morse_workers, morse_lock, sdr_device_registry, req>>
    /\ UNCHANGED thread_vars

\* The /morse/stream fan-out takes the next event off the queue.
MorseStream ==
    /\ morse_queue # <<>>
    /\ morse_queue' = Tail(morse_queue)
    /\ UNCHANGED <<morse_state, morse_state_message, morse_last_error, morse_session_id,
                   morse_active_device, morse_runtime_config, morse_process,
                   morse_workers, morse_lock, sdr_device_registry, att, req>>
    /\ UNCHANGED thread_vars

\* Another subsystem (scanner, waterfall, ...) claims or releases a device.
OtherClaim(d) ==
    /\ ~claim_error(sdr_device_registry, d)
    /\ sdr_device_registry' = claim_sdr_device(sdr_device_registry, d, "scanner")
    /\ UNCHANGED <<morse_state, morse_state_message, morse_last_error, morse_session_id,
                   morse_active_device, morse_runtime_config, morse_process,
                   morse_workers, morse_queue, morse_lock, att, req>>
    /\ UNCHANGED thread_vars

OtherRelease(d) ==
    /\ sdr_device_registry[d] = "scanner"
    /\ sdr_device_registry' = release_sdr_device(sdr_device_registry, d)
    /\ UNCHANGED <<morse_state, morse_state_message, morse_last_error, morse_session_id,
                   morse_active_device, morse_runtime_config, morse_process,
                   morse_workers, morse_queue, morse_lock, att, req>>
    /\ UNCHANGED thread_vars

\* ------------------------------------ utils/morse.py: morse_decoder_thread
\* Times are in ticks of 50 ms; the thread keeps the time since an instant
\* where the code keeps the instant, stopping at the value it is compared to.
\* A chunk that is there is taken at once; time passes a whole poll at a time,
\* when raw_queue.get times out.
RawQueueMax == 1

POLL == 4
SCOPE_INTERVAL == 2
WAITING_INTERVAL == 5
STALLED_AFTER_DATA_SECONDS == 30
NoTime == -1

\* b'', the reader's end-of-stream mark in raw_queue.
EndOfStream == <<"">>

\* The chunks the capture process writes, eight windows each: noise, and a
\* keyed chunk holding a dit, a character gap and the start of the next dit.
Keyed == <<"high", "low", "low", "low", "low", "low", "high", "low">>
Quiet == [i \in 1..Len(Keyed) |-> "low"]
ThreadChunks == {Quiet, Keyed}

NewThread ==
    [stop_event |-> FALSE, control_queue |-> <<>>, raw_queue |-> <<>>,
     reader_pc |-> "check", held |-> <<>>, reader_done |-> FALSE,
     first_raw_logged |-> FALSE,
     loop_pc |-> "drain", last_pcm_at |-> NoTime,
     waiting_since |-> FALSE, last_waiting_emit |-> WAITING_INTERVAL,
     last_scope |-> 0, first_pcm_logged |-> FALSE]

Range(q) == {q[i] : i \in 1..Len(q)}

RECURSIVE PutEvents(_, _)
PutEvents(q, ev) ==
    IF ev = <<>> THEN q ELSE PutEvents(put_nowait(q, Head(ev)), Tail(ev))

\* A faulty heartbeat that repeats the last scope picture.
_emit_waiting_scope_stale(q) ==
    put_nowait(q, [ScopeEvent(Quiet, TRUE) EXCEPT !.waiting = TRUE])

_emit_waiting_scope(q) ==
    put_nowait(q, [ScopeEvent(<<>>, FALSE) EXCEPT !.waiting = TRUE])

\* The finally block of _reader_loop.
ReaderFinally(th) ==
    [th EXCEPT !.reader_pc = "done", !.reader_done = TRUE, !.held = <<>>,
               !.raw_queue = IF Len(@) < RawQueueMax THEN Append(@, EndOfStream) ELSE @]

\* A reader that never looks at the stop event.
ReaderCheck_blind ==
    /\ thread.reader_pc = "check"
    /\ thread' = [thread EXCEPT !.reader_pc = "select"]
    /\ UNCHANGED <<route_vars, decoder, returned, stream, output_queue>>

\* while not stop_event.is_set()
ReaderCheck ==
    /\ thread.reader_pc = "check"
    /\ thread' = IF thread.stop_event THEN ReaderFinally(thread)
                 ELSE [thread EXCEPT !.reader_pc = "select"]
    /\ UNCHANGED <<route_vars, decoder, returned, stream, output_queue>>

\* select() with its 0.2 s timeout, then os.read: nothing ready, a chunk, end
\* of stream, or a read error.
ReaderSelect(chunks) ==
    /\ thread.reader_pc = "select"
    /\ \/ /\ stream \in {"silent", "live"}
          /\ thread' = [thread EXCEPT !.reader_pc = "check"]
          /\ UNCHANGED output_queue
       \/ /\ stream = "live"
          /\ \E chunk \in chunks :
                thread' = [thread EXCEPT !.reader_pc = "push", !.held = chunk,
                                         !.first_raw_logged = TRUE]
          /\ output_queue' = IF thread.first_raw_logged THEN output_queue
                             ELSE put_nowait(output_queue, Event("info", "pcm"))
       \/ /\ stream = "live"
          /\ thread' = ReaderFinally(thread)
          /\ output_queue' = put_nowait(output_queue, Event("info", "pcm"))
       \/ /\ stream = "closed"
          /\ thread' = ReaderFinally(thread)
          /\ UNCHANGED output_queue
    /\ UNCHANGED <<route_vars, decoder, returned, stream>>

\* raw_queue.put(data, timeout=0.2): the chunk goes in when there is room
\* (at once, or when the processing loop makes room before the timeout);
\* with the buffer full for the whole timeout the put raises queue.Full.
ReaderPush ==
    /\ thread.reader_pc = "push"
    /\ thread' = IF Len(thread.raw_queue) < RawQueueMax
                 THEN [thread EXCEPT !.reader_pc = "check", !.held = <<>>,
                                     !.raw_queue = Append(@, thread.held)]
                 ELSE [thread EXCEPT !.reader_pc = "evict"]
    /\ UNCHANGED <<route_vars, decoder, returned, stream, output_queue>>

\* A faulty handler of queue.Full that drops the new chunk.
ReaderEvict_keeps_oldest ==
    /\ thread.reader_pc = "evict"
    /\ thread' = [thread EXCEPT !.reader_pc = "check", !.held = <<>>]
    /\ UNCHANGED <<route_vars, decoder, returned, stream, output_queue>>

\* except queue.Full: get_nowait() takes the oldest chunk out, when there
\* still is one, and put_nowait(data) puts the new one in.
ReaderEvict ==
    /\ thread.reader_pc = "evict"
    /\ thread' = [thread EXCEPT
                     !.reader_pc = "check", !.held = <<>>,
                     !.raw_queue = Append(IF @ = <<>> THEN @ ELSE Tail(@),
                                          thread.held)]
    /\ UNCHANGED <<route_vars, decoder, returned, stream, output_queue>>

\* The finally block of the processing loop: set the stop event, flush the
\* decoder, publish the 'stopped' status.
LoopFinally(th, d, q) ==
    /\ thread' = [th EXCEPT !.stop_event = TRUE, !.loop_pc = "done"]
    /\ decoder' = flush(d).d
    /\ output_queue' = put_nowait(PutEvents(q, flush(d).ev), Event("status", "stopped"))

\* Top of the processing loop: the stop check, then _drain_control_queue,
\* which empties the queue, recalibrates for every 'reset', asks to leave the
\* loop for a 'shutdown' or a 'stop' and passes over anything else.
LoopDrain ==
    /\ thread.loop_pc = "drain"
    /\ LET cmds == Range(thread.control_queue)
           d == IF "reset" \in cmds THEN reset_calibration(decoder) ELSE decoder
           drained == [thread EXCEPT !.control_queue = <<>>]
       IN  IF thread.stop_event
           THEN LoopFinally(thread, decoder, output_queue)
           ELSE IF "shutdown" \in cmds \/ "stop" \in cmds
           THEN LoopFinally(drained, d, output_queue)
           ELSE /\ thread' = [drained EXCEPT !.loop_pc = "get"]
                /\ decoder' = d
                /\ UNCHANGED output_queue
    /\ UNCHANGED <<route_vars, returned, stream>>

\* raw_queue.get returned a chunk, or the reader's end-of-stream mark.
LoopGet ==
    /\ thread.loop_pc = "get"
    /\ thread.raw_queue # <<>>
    /\ LET data == Head(thread.raw_queue)
           taken == [thread EXCEPT !.raw_queue = Tail(@)]
           r == process_block(decoder, data)
           scope == {i \in 1..Len(r.ev) : r.ev[i].type = "scope"}
           others == SelectSeq(r.ev, LAMBDA e : e.type # "scope")
           due == scope # {} /\ thread.last_scope >= SCOPE_INTERVAL
           q1 == IF thread.first_pcm_logged THEN output_queue
                 ELSE put_nowait(output_queue, Event("info", "pcm"))
           q2 == PutEvents(q1, others)
       IN  IF data = EndOfStream
           THEN LoopFinally(taken, decoder,
                    IF thread.reader_done /\ thread.last_pcm_at = NoTime
                    THEN put_nowait(output_queue, Event("info", "pcm"))
                    ELSE output_queue)
           ELSE /\ Len(r.d.current_symbol) <= MaxSymbol
                /\ decoder' = r.d
                /\ output_queue' = IF due THEN put_nowait(q2, r.ev[Len(r.ev)]) ELSE q2
                /\ thread' = [taken EXCEPT !.loop_pc = "drain",
                                           !.waiting_since = FALSE,
                                           !.last_pcm_at = 0,
                                           !.first_pcm_logged = TRUE,
                                           !.last_scope = IF due THEN 0 ELSE @]
    /\ UNCHANGED <<route_vars, returned, stream>>

\* The time since an instant, one poll later.
Later(age, limit) == Min2(age + POLL, limit)

\* raw_queue.get found nothing for its whole timeout of 0.2 s: the heartbeat
\* branch, one poll later than the loop's last step.
LoopTimeout ==
    /\ thread.loop_pc = "get"
    /\ thread.raw_queue = <<>>
    /\ LET now == [thread EXCEPT
                      !.last_pcm_at = IF @ = NoTime THEN NoTime
                                      ELSE Later(@, STALLED_AFTER_DATA_SECONDS),
                      !.last_waiting_emit = Later(@, WAITING_INTERVAL),
                      !.last_scope = Later(@, SCOPE_INTERVAL)]
           should_emit_waiting ==
               \/ now.last_pcm_at = NoTime
               \/ now.last_pcm_at >= STALLED_AFTER_DATA_SECONDS
           emit == should_emit_waiting /\ now.last_waiting_emit >= WAITING_INTERVAL
           q == IF emit THEN _emit_waiting_scope(output_queue) ELSE output_queue
           th == [now EXCEPT
                     !.waiting_since = @ \/ should_emit_waiting,
                     !.last_waiting_emit = IF emit THEN 0 ELSE @]
       IN  IF thread.reader_done
           THEN LoopFinally(th, decoder, q)
           ELSE /\ thread' = [th EXCEPT !.loop_pc = "drain"]
                /\ output_queue' = q
                /\ UNCHANGED decoder
    /\ UNCHANGED <<route_vars, returned, stream>>

\* An unexpected exception inside the processing loop: reported as an info
\* event, then the finally block.
LoopError ==
    /\ thread.loop_pc \in {"drain", "get"}
    /\ LoopFinally(thread, decoder,
                   put_nowait(output_queue, Event("info", "pcm")))
    /\ UNCHANGED <<route_vars, returned, stream>>

\* The owner of the thread cancels it: stop event, then a 'shutdown' command.
ThreadStop ==
    /\ ~thread.stop_event
    /\ thread' = [thread EXCEPT
                     !.stop_event = TRUE,
                     !.control_queue = IF Len(@) < ControlQueueMax
                                       THEN Append(@, "shutdown") ELSE @]
    /\ UNCHANGED <<route_vars, decoder, returned, stream, output_queue>>

\* The capture process closes its output.
StreamCloses ==
    /\ stream = "live"
    /\ stream' = "closed"
    /\ UNCHANGED <<route_vars, decoder, returned, thread, output_queue>>

\* The consumer takes the next event.
Consume ==
    /\ output_queue # <<>>
    /\ output_queue' = Tail(output_queue)
    /\ UNCHANGED <<route_vars, decoder, returned, stream, thread>>

\* ------------------------------------------ direct calls on a MorseDecoder
DecoderProcess(chunk) ==
    /\ Len(process_block(decoder, chunk).d.current_symbol) <= MaxSymbol
    /\ decoder' = process_block(decoder, chunk).d
    /\ returned' = process_block(decoder, chunk).ev
    /\ UNCHANGED <<route_vars, stream, thread, output_queue>>

\* process_block on a chunk of one window of a carrier: the window is at or
\* above snr_on once the detector is tuned, and its scan finds the peak.
DecoderScan(peak) ==
    /\ LET w == ScannedWindow(decoder, "high", peak)
       IN  /\ decoder' = w.d
           /\ returned' = Append(w.ev, DecoderScope(w.d, <<"high">>))
    /\ UNCHANGED <<route_vars, stream, thread, output_queue>>

DecoderReset ==
    /\ decoder' = reset_calibration(decoder)
    /\ returned' = <<>>
    /\ UNCHANGED <<route_vars, stream, thread, output_queue>>

DecoderFlush ==
    /\ decoder' = flush(decoder).d
    /\ returned' = flush(decoder).ev
    /\ UNCHANGED <<route_vars, stream, thread, output_queue>>

\* ------------------------------- utils/morse.py: decode_morse_wav_file
MaxText == 3

Rep(x, n) == [i \in 1..n |-> x]

\* Characters of a text: those with a code of one or two elements, and the
\* space.
TextChars == {ch \in DOMAIN CHAR_TO_MORSE : Len(CHAR_TO_MORSE[ch]) <= 2}

Texts == SeqsUpTo(TextChars \cup {" "}, MaxText) \ {<<>>}

\* text.split(): the words of a text, in order.
RECURSIVE Split(_, _, _)
Split(text, word, words) ==
    IF text = <<>> THEN (IF word = <<>> THEN words ELSE Append(words, word))
    ELSE IF Head(text) = " "
    THEN Split(Tail(text), <<>>, IF word = <<>> THEN words ELSE Append(words, word))
    ELSE Split(Tail(text), Append(word, Head(text)), words)

\* ' '.join(words)
RECURSIVE Join(_)
Join(words) ==
    IF words = <<>> THEN <<>>
    ELSE IF Len(words) = 1 THEN words[1]
    ELSE words[1] \o <<" ">> \o Join(Tail(words))

\* A code keyed with dits of dit windows: a dit is one unit of tone, a dah
\* three, with one unit of silence between elements.
RECURSIVE KeyCode(_, _)
KeyCode(code, dit) ==
    IF code = <<>> THEN <<>>
    ELSE Rep("high", IF Head(code) = "." THEN dit ELSE 3 * dit)
         \o (IF Len(code) > 1 THEN Rep("low", dit) ELSE <<>>)
         \o KeyCode(Tail(code), dit)

\* Three units of silence between the characters of a word.
RECURSIVE KeyWord(_, _)
KeyWord(word, dit) ==
    IF word = <<>> THEN <<>>
    ELSE KeyCode(CHAR_TO_MORSE[Head(word)], dit)
         \o (IF Len(word) > 1 THEN Rep("low", 3 * dit) ELSE <<>>)
         \o KeyWord(Tail(word), dit)

\* Seven units of silence between words.
RECURSIVE KeyWords(_, _)
KeyWords(words, dit) ==
    IF words = <<>> THEN <<>>
    ELSE KeyWord(Head(words), dit)
         \o (IF Len(words) > 1 THEN Rep("low", 7 * dit) ELSE <<>>)
         \o KeyWords(Tail(words), dit)

\* The recording of a text keyed at wpm words per minute, after a silence
\* as long as the warm-up.
generate_morse_audio(text, wpm) ==
    Rep("low", _WARMUP_BLOCKS) \o KeyWords(Split(text, <<>>, <<>>), 60 \div wpm)

\* The recording of one tone of n windows between silences.
Burst(n) == Rep("low", _WARMUP_BLOCKS) \o Rep("high", n) \o <<"low">>

\* The speeds whose dit is a whole number of windows.
KeyedWpms == {wpm \in Wpms : 60 % wpm = 0}

\* The recording of a code that is not in the table, a word gap and a dit,
\* keyed by hand with standard timing.
Unlisted(wpm) ==
    Rep("low", _WARMUP_BLOCKS) \o KeyCode(<<"-", "-", "-", "-">>, 60 \div wpm)
        \o Rep("low", 7 * (60 \div wpm)) \o KeyCode(<<".">>, 60 \div wpm)

Recordings(wpm) ==
    {Burst(n) : n \in 1..(ToneCap(NewDecoder(wpm)) + 2)}
    \cup (IF wpm \in KeyedWpms
          THEN {generate_morse_audio(text, wpm) : text \in Texts} \cup {Unlisted(wpm)}
          ELSE {})

\* The windows completed once k chunks of 2048 samples were handed to
\* process_block.
WindowsAfter(pcm, k) == Min2(Len(pcm), (2048 * k) \div 160)

\* Each call of process_block returns before the next chunk is cut.
RECURSIVE FeedChunks(_, _, _, _)
FeedChunks(d, ev, pcm, k) ==
    IF WindowsAfter(pcm, k - 1) >= Len(pcm) THEN [d |-> d, ev |-> ev]
    ELSE Only({FeedChunks(r.d, ev \o r.ev, pcm, k + 1) :
                  r \in {process_block(d, SubSeq(pcm, WindowsAfter(pcm, k - 1) + 1,
                                                 WindowsAfter(pcm, k)))}})

\* decode_morse_wav_file: a new decoder, the recording in chunks, then flush.
decode_morse_wav_file(pcm, wpm) ==
    Only({[d |-> flush(fed.d).d, ev |-> fed.ev \o flush(fed.d).ev] :
             fed \in {FeedChunks(NewDecoder(wpm), <<>>, pcm, 1)}})

\* The 'text' of the result: characters, and a space for every word gap.
RECURSIVE TextOf(_)
TextOf(ev) ==
    IF ev = <<>> THEN <<>>
    ELSE (IF Head(ev).type = "morse_char" THEN <<Head(ev).value>>
          ELSE IF Head(ev).type = "morse_space" THEN <<" ">> ELSE <<>>)
         \o TextOf(Tail(ev))

\* The elements reported by a sequence of events.
RECURSIVE ElementsOf(_)
ElementsOf(ev) ==
    IF ev = <<>> THEN <<>>
    ELSE (IF Head(ev).type = "morse_element" THEN <<Head(ev).value>> ELSE <<>>)
         \o ElementsOf(Tail(ev))

\* One call of decode_morse_wav_file on the recording at hand.
DecodeFile ==
    /\ decoder = NewDecoder(decoder.wpm)
    /\ decoder' = decode_morse_wav_file(stream, decoder.wpm).d
    /\ returned' = decode_morse_wav_file(stream, decoder.wpm).ev
    /\ UNCHANGED <<route_vars, stream, thread, output_queue>>

\* ---------------------------------------------------------- specification
\* A decoder thread about to start on a capture process that is going to write
\* ("live") or that never writes and never closes ("silent").
InitThread(streams, decoders) ==
    /\ decoder \in decoders
    /\ returned = <<>>
    /\ stream \in streams
    /\ thread = NewThread
    /\ output_queue = <<>>

Init == InitRoutes /\ InitThread({"silent"}, {NewDecoder(50)})

AllOutcomes ==
    {"no_tool", "rtl_raise", "mm_raise", "pcm", "rtl_exited", "mm_exited", "timeout",
     "timeout_gone"}

AllStragglers ==
    SUBSET {"relay_thread", "decoder_thread", "stderr_thread", "rtl_process",
            "multimon_process"}

\* The concurrent specification: two request threads issuing start, stop and
\* status requests in any interleaving; start requests with the defaults on
\* device 0 (RTL-SDR below 24 MHz) or device 1 (other hardware); a reduced
\* choice of startup outcomes and of teardown stragglers. Calibration, which
\* touches only the control queue and the event queue, and the event stream are
\* left to the sequential specification.
CoreInputs ==
    {[DefaultData EXCEPT !.device = 0],
     [DefaultData EXCEPT !.device = 1, !.sdr_type = "hackrf"]}

CoreOutcomes == {"no_tool", "mm_raise", "pcm", "rtl_exited", "timeout"}

CoreStragglers == {{}, {"stderr_thread", "rtl_process"}}

ScannerDevices == {0}

Routes ==
    \/ \E r \in Requests :
          \/ StartMorse_Request(r, CoreInputs)
          \/ StartMorse_Begin(r)
          \/ StartMorse_Attempt(r, CoreOutcomes)
          \/ StartMorse_Cleanup(r)
          \/ StartMorse_ExcFail(r)
          \/ StartMorse_FailIdle(r)
          \/ StartMorse_Commit(r)
          \/ StopMorse_Detach(r)
          \/ StopMorse_Teardown(r)
          \/ StopMorse_Idle(r, CoreStragglers)
          \/ MorseStatus(r)
    \/ \E s \in Sessions : ProcExit(s)
    \/ \E d \in ScannerDevices : OtherClaim(d) \/ OtherRelease(d)

Next == Routes

Spec == Init /\ [][Next]_vars

\* The sequential specification: one client issuing one request after another,
\* with every start body of AllInputs, every startup outcome, every
\* combination of teardown stragglers, and the event stream consuming the queue.
With(field, values) == {[DefaultData EXCEPT ![field] = v] : v \in values}

AllInputs ==
    CoreInputs
    \cup {[DefaultData EXCEPT !.frequency = 240]}
    \cup With("tone_freq", {Num(2999), Num(3000), Num(12000), Num(12001), Bad})
    \cup With("wpm", {Num(49), Num(50), Num(500), Num(509), Num(510), Str(509), Bad})
    \cup With("bandwidth_hz", {Num(1000), Num(2007), Num(3000), Str(2007)})
    \cup With("threshold_mode", {"", " Manual ", "AUTO", "fast"})
    \cup With("wpm_mode", {"manual", "fast"})
    \cup With("threshold_multiplier", {Num(10), Num(11), Num(80), Num(81)})
    \cup With("manual_threshold", {Num(-1), Num(5)})
    \cup With("threshold_offset", {Num(-1), Num(5)})
    \cup With("signal_gate", {Num(-1), Num(10), Num(11)})

Client == "r1"

ClientNext(inputs) ==
    \/ StartMorse_Request(Client, inputs)
    \/ StartMorse_Begin(Client)
    \/ StartMorse_Attempt(Client, AllOutcomes)
    \/ StartMorse_Cleanup(Client)
    \/ StartMorse_ExcFail(Client)
    \/ StartMorse_FailIdle(Client)
    \/ StartMorse_Commit(Client)
    \/ StopMorse_Detach(Client)
    \/ StopMorse_Teardown(Client)
    \/ StopMorse_Idle(Client, AllStragglers)
    \/ CalibrateMorse(Client)
    \/ MorseStatus(Client)
    \/ \E s \in Sessions : ProcExit(s) \/ RelayControl(s) \/ RunnerLoopError(s)
    \/ \E d \in ScannerDevices : OtherClaim(d) \/ OtherRelease(d)
    \/ MorseStream

NextSeq == ClientNext(AllInputs)

SpecSeq == Init /\ [][NextSeq]_vars

\* The same client sending only well-formed bodies: the defaults on device 0
\* below and at 24 MHz, and on device 1 with other hardware.
StartInputs == CoreInputs \cup {[DefaultData EXCEPT !.frequency = 240]}

NextOne == ClientNext(StartInputs)

SpecOne == Init /\ [][NextOne]_vars

\* A MorseDecoder driven directly: every chunk of up to MaxWindows windows,
\* recalibration and flush in any order.
NextDecoder ==
    \/ \E chunk \in Chunks : DecoderProcess(chunk)
    \/ DecoderReset
    \/ DecoderFlush

\* Direct calls on decoders of every speed with the tone locked; the windows
\* are at the detector's frequency.
InitDecoder ==
    InitRoutes /\ InitThread({"silent"},
                             {MorseDecoder(wpm, Hz(700), TRUE, TRUE) : wpm \in Wpms})

SpecDecoder == InitDecoder /\ [][NextDecoder]_vars

\* The tone settings decoders are constructed with: a tone below the range
\* (clamped to 300 Hz), the default, and one near the top of the range.
ToneFreqs == {Hz(250), Hz(700), Hz(1150)}

\* The peaks a carrier that wanders gives the scan: none, the ends of the
\* scanned range, and the scanned frequencies next to the active one.
Peaks(d) ==
    {NoPeak}
    \cup {f \in ScanFreqs(d) :
             \/ \A g \in ScanFreqs(d) : f <= g
             \/ \A g \in ScanFreqs(d) : f >= g
             \/ (f - d.active_tone_freq) \in (0 - _tone_scan_step_hz).._tone_scan_step_hz}

InitTone ==
    InitRoutes /\ InitThread({"silent"},
                             {MorseDecoder(50, f, track, lock) :
                                 f \in ToneFreqs, track \in BOOLEAN, lock \in BOOLEAN})

NextTone ==
    \/ \E peak \in Peaks(decoder) : DecoderScan(peak)
    \/ DecoderReset

SpecTone == InitTone /\ [][NextTone]_vars

\* One call of decode_morse_wav_file: a recording and the speed the decoder
\* is set to, then the decoding.
InitFile ==
    /\ InitRoutes
    /\ decoder \in {NewDecoder(wpm) : wpm \in Wpms}
    /\ stream \in Recordings(decoder.wpm)
    /\ returned = <<>>
    /\ thread = NewThread
    /\ output_queue = <<>>

NextFile == DecodeFile

SpecFile == InitFile /\ [][NextFile]_vars

\* One decoder thread with its reader, its capture process, its owner and the
\* consumer of its output queue.
InitRunner == InitRoutes /\ InitThread({"silent", "live"}, {NewDecoder(50)})

NextRunner ==
    \/ ReaderCheck
    \/ ReaderSelect(ThreadChunks)
    \/ ReaderPush
    \/ ReaderEvict
    \/ LoopDrain
    \/ LoopGet
    \/ LoopTimeout
    \/ LoopError
    \/ ThreadStop
    \/ StreamCloses
    \/ Consume

SpecRunner == InitRunner /\ [][NextRunner]_vars

\* -------------------------------------------------------------- properties
\* A start that has claimed a device and has not yet returned.
StartInFlight(r) ==
    req[r].op = "start" /\ req[r].pc \in {"attempt", "cleanup", "exc_fail", "fail_idle",
                                           "commit"}

\* A stop between detaching the handles and setting Idle.
StopInFlight(r) == req[r].op = "stop" /\ req[r].pc \in {"teardown", "set_idle"}

\* Session s has a capture process running.
Capturing(s) == ProcAlive(att[s].rtl) \/ ProcAlive(att[s].mm)

\* C1: at most one session is active at any time: never two start requests
\* that have both claimed a device and not yet returned, and never capture
\* processes of two different sessions running at once.
C1_SingleSession ==
    /\ \A r, o \in Requests : StartInFlight(r) /\ StartInFlight(o) => r = o
    /\ \A s, t \in Sessions : Capturing(s) /\ Capturing(t) => s = t

LifecycleEdges ==
    {<<MORSE_IDLE, MORSE_STARTING>>, <<MORSE_STARTING, MORSE_RUNNING>>,
     <<MORSE_RUNNING, MORSE_STOPPING>>, <<MORSE_STOPPING, MORSE_IDLE>>,
     <<MORSE_STARTING, MORSE_ERROR>>, <<MORSE_ERROR, MORSE_IDLE>>}

\* C2: the lifecycle state changes only along Idle->Starting, Starting->Running,
\* Running->Stopping, Stopping->Idle, Starting->Error and Error->Idle, whatever
\* the interleaving of requests.
C2_LifecycleEdges ==
    [][morse_state' # morse_state => <<morse_state, morse_state'>> \in LifecycleEdges]_vars

\* C3: a start that claimed a device and returns an error leaves its device
\* released, no active device recorded and the state Idle.
C3_FailedStartReleases ==
    [][\A r \in Requests :
          req[r].pc = "fail_idle" /\ req'[r].pc = "done"
          => /\ sdr_device_registry'[req[r].data.device] # "morse"
             /\ morse_active_device' = NoDevice
             /\ morse_state' = MORSE_IDLE]_vars

\* C4: a stop that found the session Running ends with the state Idle and the
\* device its capture ran on no longer held by the decoder, whatever is left
\* alive after the teardown.
C4_StopReleases ==
    [][\A r \in Requests :
          req[r].pc = "set_idle" /\ req[r].found = MORSE_RUNNING /\ req'[r].pc = "done"
          => /\ morse_state' = MORSE_IDLE
             /\ sdr_device_registry'[att[req[r].proc].device] # "morse"]_vars

C6_OneStopAtATime ==
    [][\A r, o \in Requests :
          r # o /\ StopInFlight(r) /\ req[r].found = MORSE_RUNNING
          => /\ ~(Free(o) /\ req'[o].pc = "teardown")
             /\ (Free(o) /\ req'[o].op = "stop" /\ req'[o] # req[o]
                 => req'[o].resp = "stopping")
             /\ ~(req[o].pc = "validate" /\ req'[o].pc = "attempt")]_vars

\* C7: a start rejected for a conflict or a busy device changes neither the
\* lifecycle state, the session id, the active device, the runtime
\* configuration, the published handles, the event queue nor the device
\* registry, and spawns no process.
C7_RejectedStartFrame ==
    [][\A r \in Requests :
          req[r].pc = "validate" /\ req'[r].resp \in {"conflict", "device_busy"}
          => UNCHANGED <<morse_state, morse_session_id, morse_active_device,
                         morse_runtime_config, morse_process, morse_workers,
                         morse_queue, sdr_device_registry, att>>]_vars

\* A start has been rejected with a conflict while a session with running
\* capture processes and queued events exists.
C7_Witness ==
    \E r \in Requests :
        /\ req[r].resp = "conflict"
        /\ morse_process # NoSession
        /\ Capturing(morse_process)
        /\ morse_queue # <<>>

\* The parameter ranges as the interface states them, on the value as sent.
Numeric(v) == v.kind \in {"num", "str"}

Outside(v, lo, hi) == Numeric(v) /\ (v.n < lo \/ v.n > hi)

OutOfRange(d) ==
    \/ Outside(d.tone_freq, 3000, 12000)
    \/ Outside(d.wpm, 50, 500)
    \/ (Numeric(d.bandwidth_hz) /\ d.bandwidth_hz.n \notin {500, 1000, 2000, 4000})
    \/ Outside(d.threshold_multiplier, 11, 80)
    \/ (Numeric(d.manual_threshold) /\ d.manual_threshold.n < 0)
    \/ (Numeric(d.threshold_offset) /\ d.threshold_offset.n < 0)
    \/ Outside(d.signal_gate, 0, 10)
    \/ ModeText(d.threshold_mode) \notin {"auto", "manual"}
    \/ ModeText(d.wpm_mode) \notin {"auto", "manual"}

\* C8: a start whose body holds an out-of-range parameter is answered with a
\* parameter error, and no device is claimed for it.
C8_OutOfRangeRejected ==
    [][\A r \in Requests :
          req[r].pc = "validate" /\ req'[r].pc # "validate" /\ OutOfRange(req[r].data)
          => /\ req'[r].resp = "param_error"
             /\ sdr_device_registry' = sdr_device_registry]_vars

\* C9: whenever the state is Idle and no request is in flight, the decoder
\* holds no device claim and no capture process is running.
C9_IdleHoldsNothing ==
    (morse_state = MORSE_IDLE /\ \A r \in Requests : Free(r))
    => /\ \A d \in Devices : sdr_device_registry[d] # "morse"
       /\ \A s \in Sessions : ~Capturing(s)

RetryMatrix(d) ==
    IF d.sdr_type = "rtlsdr" /\ d.frequency < 240 THEN <<2, 1, 0>> ELSE <<0>>

\* The reason a failed startup wait leaves visible in the attempt's processes.
ReasonFits(e, b) ==
    \/ e.error = "timeout"
    \/ e.error = "rtl_exited" /\ b.rtl = "exited"
    \/ e.error = "mm_exited" /\ b.mm = "exited"

\* C11: every failed attempt adds exactly one entry, its own, to the reasons
\* collected so far, tearing it down keeps them, and when the last attempt of
\* the retry matrix has failed too the start returns one error holding one
\* entry per attempt in attempt order, which is also the recorded last error,
\* and ends Idle with its device released and no active device.
C11_AllReasonsReported ==
    [][\A r \in Requests :
          LET s == req[r].sid
              n == Len(RetryMatrix(req[r].data))
              msg == req'[r].msg
          IN  /\ (req[r].pc = "attempt" /\ req'[r].pc = "cleanup"
                  => /\ Len(req'[r].errors) = Len(req[r].errors) + 1
                     /\ SubSeq(req'[r].errors, 1, Len(req[r].errors)) = req[r].errors
                     /\ LET e == req'[r].errors[Len(req'[r].errors)]
                        IN  /\ e.attempt = req[r].idx
                            /\ e.mode = RetryMatrix(req[r].data)[req[r].idx]
                            /\ ReasonFits(e, att'[s]))
              /\ (req[r].pc = "cleanup" /\ req'[r].pc = "attempt"
                  => req'[r].errors = req[r].errors /\ req'[r].idx = req[r].idx + 1)
              /\ (req[r].pc = "cleanup" /\ req'[r].pc = "fail_idle"
                  => /\ req[r].idx = n
                     /\ Len(msg.attempts) = n
                     /\ msg.attempts = req[r].errors
                     /\ \A i \in 1..n : msg.attempts[i].attempt = i
                     /\ morse_last_error' = msg)
              /\ (req[r].pc = "fail_idle" /\ req[r].msg.attempts # <<>>
                    /\ req'[r].pc = "done"
                  => /\ req'[r].resp = "error"
                     /\ morse_last_error' = req[r].msg
                     /\ morse_state' = MORSE_IDLE
                     /\ morse_active_device' = NoDevice
                     /\ sdr_device_registry'[req[r].data.device] # "morse")]_vars

\* Both capture processes of an attempt are alive and no PCM has arrived.
AliveWithoutPcm(b) == ProcAlive(b.rtl) /\ ProcAlive(b.mm) /\ ~b.pcm_ready_event

Candidates(d) == {c \in Devices : c # d.device /\ sdr_device_registry[c] = ""}

\* C13: when the last direct-sampling strategy has failed on the requested
\* device while another candidate device is present, the start does not give
\* up: it goes on to an attempt on a candidate device, with the requested
\* device released.
C13_DeviceFallback ==
    [][\A r \in Requests :
          req[r].pc = "cleanup" /\ req'[r].pc # "cleanup"
            /\ req[r].idx = Len(RetryMatrix(req[r].data))
            /\ Candidates(req[r].data) # {}
          => /\ req'[r].pc = "attempt"
             /\ morse_active_device' \in Candidates(req[r].data)
             /\ sdr_device_registry'[req[r].data.device] # "morse"]_vars

\* The messages of a missing binary: the decoder tool lookup that found
\* nothing, and a launch that raised file-not-found.
ToolMissing == {Msg("multimon-ng not found"), Msg("Tool not found")}

\* C14: a missing binary ends the start at once. A launch that raised
\* file-not-found on attempt k is followed by no further attempt: attempt k is
\* torn down and the failure block runs with the error as last error; and a
\* start that failed for a missing binary returns an error with the session
\* Idle, the error recorded, no active device and its device released.
C14_ToolMissingFatal ==
    [][\A r \in Requests :
          LET s == req[r].sid
          IN  /\ (req[r].pc = "exc_fail" /\ req[r].exc = "Tool not found"
                    /\ req'[r].pc # "exc_fail"
                  => /\ req'[r].pc = "fail_idle"
                     /\ req'[r].msg \in ToolMissing
                     /\ morse_last_error' = req'[r].msg
                     /\ ~ProcAlive(att'[s].rtl) /\ ~ProcAlive(att'[s].mm)
                     /\ att'[s].attempt = req[r].idx)
              /\ (req[r].pc = "attempt" /\ req'[r].pc = "fail_idle"
                  => /\ req'[r].msg \in ToolMissing
                     /\ morse_last_error' = req'[r].msg
                     /\ att'[s] = NoBundle)
              /\ (req[r].pc = "fail_idle" /\ req[r].msg \in ToolMissing
                    /\ req'[r].pc = "done"
                  => /\ req'[r].resp = "error"
                     /\ morse_state' = MORSE_IDLE
                     /\ morse_last_error' = req[r].msg
                     /\ morse_active_device' = NoDevice
                     /\ sdr_device_registry'[req[r].data.device] # "morse")]_vars

\* C15: a recalibrate outside Running answers 'not_running' and posts nothing
\* to any control channel; a recalibrate in Running answers 'ok' at once and
\* has posted exactly one 'reset' to the control channel of the running
\* session, where it waits for the worker.
C15_Recalibrate ==
    [][\A r \in Requests :
          CalibrateMorse(r)
          => IF morse_state = MORSE_RUNNING
             THEN /\ req'[r].resp = "ok"
                  /\ morse_workers # NoSession
                  /\ att'[morse_workers].control_queue
                       = Append(att[morse_workers].control_queue, "reset")
             ELSE /\ req'[r].resp = "not_running"
                  /\ att' = att
                  /\ morse_queue' = morse_queue]_vars

\* C16: when a worker loop of the running session fails unexpectedly, the
\* failure itself ends the session: the lifecycle state leaves Running and the
\* session's device is no longer claimed, with no stop request involved.
C16_RunnerFailureStops ==
    [][\A s \in Sessions :
          RunnerLoopError(s) /\ morse_state = MORSE_RUNNING /\ morse_workers = s
          => /\ morse_state' \in {MORSE_ERROR, MORSE_IDLE}
             /\ sdr_device_registry'[att[s].device] # "morse"]_vars

\* C20: a process_block call that ends inside the warm-up (at most 16
\* windows analysed since construction or since the last reset_calibration)
\* leaves tone_on false and returns nothing but a scope event showing no
\* tone, whatever the levels of its windows; and in every state of the
\* warm-up the decoder's tone is off.
C20_WarmupSilent ==
    decoder.blocks_processed <= _WARMUP_BLOCKS
    => /\ ~decoder.tone_on
       /\ \A i \in 1..Len(returned) :
             returned[i].type = "scope" /\ ~returned[i].tone_on

\* A call inside the warm-up was fed two windows at full tone level and
\* returned a scope event carrying them.
C20_Witness ==
    /\ decoder.blocks_processed \in 1.._WARMUP_BLOCKS
    /\ ~decoder.tone_on
    /\ \E i \in 1..Len(returned) :
          returned[i].type = "scope" /\ returned[i].amplitudes = <<"high", "high">>

\* The waiting events held by a queue.
WaitingEvents(q) == {i \in 1..Len(q) : q[i].waiting}

\* The processing loop's view one timed-out buffer pop later: no chunk yet,
\* or none for the stall threshold.
Stalled ==
    \/ thread.last_pcm_at = NoTime
    \/ thread.last_pcm_at + POLL >= STALLED_AFTER_DATA_SECONDS

WaitingDue == thread.last_waiting_emit + POLL >= WAITING_INTERVAL

\* C17: every waiting event is a Scope event with empty amplitudes and
\* tone_on false; a waiting event is published only by a timed-out buffer pop
\* of a stalled stream (no chunk since the loop started, or none for the stall
\* threshold) and no sooner than the waiting interval after the previous one;
\* and such a pop of a stalled stream does publish one whenever the waiting
\* interval has passed and the output queue has room, so a stalled stream
\* never goes a whole waiting interval without a heartbeat.
C17_StalledHeartbeat ==
    /\ [](\A i \in WaitingEvents(output_queue) :
             /\ output_queue[i].type = "scope"
             /\ output_queue[i].amplitudes = <<>>
             /\ ~output_queue[i].tone_on)
    /\ [][Cardinality(WaitingEvents(output_queue')) > Cardinality(WaitingEvents(output_queue))
            => LoopTimeout /\ Stalled /\ WaitingDue]_vars
    /\ [][LoopTimeout /\ Stalled
            => \/ thread'.last_waiting_emit < WAITING_INTERVAL
               \/ thread'.loop_pc = "done"]_vars
    /\ [][LoopTimeout /\ Stalled /\ WaitingDue /\ Len(output_queue) < QueueMax
            => Cardinality(WaitingEvents(output_queue'))
                  = Cardinality(WaitingEvents(output_queue)) + 1]_vars

\* A heartbeat published for a stream that delivered chunks and then stalled
\* for the stall threshold.
C17_Witness ==
    /\ thread.last_pcm_at = STALLED_AFTER_DATA_SECONDS
    /\ thread.last_waiting_emit = 0
    /\ thread.loop_pc = "drain"
    /\ WaitingEvents(output_queue) # {}

\* The events other than Scope events that the decode core returns for the
\* chunk at the head of the buffer.
Decoded ==
    SelectSeq(process_block(decoder, Head(thread.raw_queue)).ev,
              LAMBDA e : e.type # "scope")

\* C18: only Scope events are dropped under backpressure: every Element, Char
\* and Space event the decode core returns for a chunk, and the 'stopped'
\* Status event of the runner, is in the output queue once the step that
\* produced it is over, whatever the queue held before.
C18_OnlyScopeDropped ==
    /\ [][LoopGet /\ Head(thread.raw_queue) # EndOfStream
            => \A e \in Range(Decoded) : e \in Range(output_queue')]_vars
    /\ [][thread.loop_pc # "done" /\ thread'.loop_pc = "done"
            => Event("status", "stopped") \in Range(output_queue')]_vars

\* The blocking calls a loop still has to get through before it has ended,
\* once the stop event is set.
ReaderRank ==
    CASE thread.reader_pc = "done" -> 0
      [] thread.reader_pc = "check" -> 1
      [] thread.reader_pc = "evict" -> 2
      [] thread.reader_pc = "push" -> 3
      [] thread.reader_pc = "select" -> 4

LoopRank ==
    CASE thread.loop_pc = "done" -> 0
      [] thread.loop_pc = "drain" -> 1
      [] thread.loop_pc = "get" -> 2

ReaderStep ==
    ReaderCheck \/ ReaderSelect(ThreadChunks) \/ ReaderPush \/ ReaderEvict

LoopStep == LoopDrain \/ LoopGet \/ LoopTimeout

Decoded_File == decoder.blocks_processed > 0

\* C21: a tone detected in exactly n consecutive windows after the warm-up,
\* decoded at a fixed speed, is reported as exactly one Element: '-' when n
\* windows last at least the dah threshold (2.2 dits), '.' when they last at
\* least the minimum valid tone (0.38 dit) and less than the dah threshold,
\* and as no Element when they last less than the minimum.
C21_BurstClassified ==
    Decoded_File =>
        \A n \in 1..(ToneCap(decoder) + 2) :
            stream = Burst(n) =>
                ElementsOf(returned) =
                    IF n * 300 >= (22 * _effective_dit_blocks(decoder)) \div 10
                    THEN <<"-">>
                    ELSE IF n * 300 >= (38 * _effective_dit_blocks(decoder)) \div 100
                    THEN <<".">>
                    ELSE <<>>

\* A text as it is compared: its words, one space apart.
Spelled(text) == Join(Split(text, <<>>, <<>>))

\* C25: a text over the characters of the Morse table, keyed with standard
\* timing at a fixed speed after a warm-up silence and decoded at the same
\* speed, flush included, comes back as the same words one space apart.
C25_RoundTrip ==
    Decoded_File /\ decoder.wpm \in KeyedWpms =>
        \A text \in Texts :
            stream = generate_morse_audio(text, decoder.wpm)
            => Spelled(TextOf(returned)) = Spelled(text)

\* The events of one kind among those returned.
Returned(ev, type) == SelectSeq(ev, LAMBDA e : e.type = type)

\* The step is a process_block call that analysed exactly one window.
OneWindow ==
    /\ returned' # <<>>
    /\ returned'[Len(returned')].type = "scope"
    /\ Len(returned'[Len(returned')].amplitudes) = 1

\* The window of the step is a tone-up edge that ends a pending symbol:
\* silence of at least the character gap behind it.
ResolvesSymbol ==
    /\ ~decoder.tone_on /\ decoder'.tone_on
    /\ decoder.current_symbol # <<>>
    /\ decoder.silence_blocks * 300 >= _char_gap(decoder)

\* C22: process_block produces Char and Space events only at a tone-up edge
\* that finds a pending symbol and a silence of at least the character gap.
\* There the symbol is looked up: one Char with its character when it is in
\* the Morse table, nothing for it when it is not; the pending symbol is
\* cleared either way, and one Space follows exactly when the silence is at
\* least the word gap. At every other window no Char and no Space is
\* produced, and a tone-up edge after a shorter silence keeps the pending
\* symbol.
C22_CharAtToneUp ==
    [][OneWindow =>
          /\ ResolvesSymbol =>
                /\ Returned(returned', "morse_char")
                     = IF decoder.current_symbol \in DOMAIN MORSE_TABLE
                       THEN <<Event("morse_char", MORSE_TABLE[decoder.current_symbol])>>
                       ELSE <<>>
                /\ Returned(returned', "morse_space")
                     = IF decoder.silence_blocks * 300 >= _word_gap(decoder)
                       THEN <<Event("morse_space", "")>> ELSE <<>>
                /\ \A i, j \in 1..Len(returned') :
                      returned'[i].type = "morse_char" /\ returned'[j].type = "morse_space"
                      => i < j
                /\ \A i \in 1..Len(returned') :
                      returned'[i].type \in {"morse_char", "morse_space", "morse_gap", "scope"}
                /\ decoder'.current_symbol = <<>>
          /\ ~ResolvesSymbol =>
                /\ Returned(returned', "morse_char") = <<>>
                /\ Returned(returned', "morse_space") = <<>>
                /\ decoder'.tone_on /\ ~decoder.tone_on
                   => decoder'.current_symbol = decoder.current_symbol]_vars

\* A tone-up edge after a word gap resolved the pending symbol '.' into the
\* Char 'E' followed by a Space.
C22_Witness ==
    /\ decoder.tone_on
    /\ decoder.current_symbol = <<>>
    /\ returned = <<Event("morse_char", "E"), Event("morse_space", ""),
                    Event("morse_gap", "word"), DecoderScope(decoder, <<"high">>)>>

\* C23: flush() is idempotent: in the state a flush() leaves, after any
\* sequence of calls, a further flush() returns no events and changes
\* nothing; and flush() with no pending symbol and no tone in progress
\* returns no events.
C23_FlushIdempotent ==
    /\ [][DecoderFlush => /\ flush(decoder').ev = <<>>
                          /\ flush(decoder').d = decoder']_vars
    /\ [][DecoderFlush /\ decoder.current_symbol = <<>> /\ ~decoder.tone_on
            => returned' = <<>>]_vars

\* A flush() that closed a tone and resolved the symbol has just returned:
\* the state in which the second flush() is called.
C23_Witness ==
    /\ returned = <<Event("morse_element", "-"), Event("morse_char", "A")>>
    /\ decoder.blocks_processed > _WARMUP_BLOCKS
    /\ flush(decoder).ev = <<>>

\* C24: flush() with a pending symbol and no tone in progress returns exactly
\* one event, the Char of the symbol's character ('E' for '.'), when the
\* symbol is in the Morse table and no event when it is not, however much
\* silence has elapsed; it returns no Space and no Gap event and leaves the
\* pending symbol empty.
C24_FlushPendingSymbol ==
    [][DecoderFlush /\ decoder.current_symbol # <<>> /\ ~decoder.tone_on
         => /\ returned' = IF decoder.current_symbol \in DOMAIN MORSE_TABLE
                           THEN <<Event("morse_char",
                                        MORSE_TABLE[decoder.current_symbol])>>
                           ELSE <<>>
            /\ decoder.current_symbol = <<".">>
               => returned' = <<Event("morse_char", "E")>>
            /\ decoder'.current_symbol = <<>>]_vars

\* flush() has returned the single Char 'E'.
C24_Witness ==
    /\ returned = <<Event("morse_char", "E")>>
    /\ decoder.current_symbol = <<>>
    /\ ~decoder.tone_on

\* C29: flush() with a tone in progress finalizes the tone first: a tone
\* whose elapsed counter is at least the minimum valid tone is appended to
\* the pending symbol as '.' or '-' (by the dah threshold), its Element is
\* returned before the Char, and the Char is that of the symbol with the
\* element; a shorter tone is dropped without an Element. After every flush()
\* tone_on is false and both elapsed counters are zero.
C29_FlushClosesTone ==
    /\ [][DecoderFlush /\ decoder.tone_on
            /\ decoder.tone_blocks * 300 >= _dit_min(decoder)
            => LET element == IF decoder.tone_blocks * 300 >= _dah_threshold(decoder)
                              THEN "-" ELSE "."
                   symbol == Append(decoder.current_symbol, element)
               IN  returned' = <<Event("morse_element", element)>>
                               \o (IF symbol \in DOMAIN MORSE_TABLE
                                   THEN <<Event("morse_char", MORSE_TABLE[symbol])>>
                                   ELSE <<>>)]_vars
    /\ [][DecoderFlush /\ decoder.tone_on
            /\ decoder.tone_blocks * 300 < _dit_min(decoder)
            => returned' = IF decoder.current_symbol \in DOMAIN MORSE_TABLE
                           THEN <<Event("morse_char",
                                        MORSE_TABLE[decoder.current_symbol])>>
                           ELSE <<>>]_vars
    /\ [][DecoderFlush => /\ ~decoder'.tone_on
                          /\ decoder'.tone_blocks = 0
                          /\ decoder'.silence_blocks = 0
                          /\ decoder'.current_symbol = <<>>]_vars

\* flush() closed a tone in progress as a dit after a pending dah and
\* returned the Element before the Char 'N'.
C29_Witness ==
    /\ returned = <<Event("morse_element", "."), Event("morse_char", "N")>>
    /\ ~decoder.tone_on
    /\ decoder.tone_blocks = 0
    /\ decoder.silence_blocks = 0

Letters ==
    {"A", "B", "C", "D", "E", "F", "G", "H", "I", "J", "K", "L", "M",
     "N", "O", "P", "Q", "R", "S", "T", "U", "V", "W", "X", "Y", "Z"}

Digits == {"0", "1", "2", "3", "4", "5", "6", "7", "8", "9"}

\* C26: the Morse table is a bijection between codes and characters:
\* CHAR_TO_MORSE[MORSE_TABLE[code]] = code for every code of the table,
\* MORSE_TABLE[CHAR_TO_MORSE[char]] = char for every character of it, every
\* letter A-Z and digit 0-9 has a code, and every character the decoder
\* returns maps back to a code of that character.
C26_TableBijection ==
    /\ \A code \in DOMAIN MORSE_TABLE : CHAR_TO_MORSE[MORSE_TABLE[code]] = code
    /\ \A char \in DOMAIN CHAR_TO_MORSE : MORSE_TABLE[CHAR_TO_MORSE[char]] = char
    /\ Letters \cup Digits \subseteq DOMAIN CHAR_TO_MORSE
    /\ \A i \in 1..Len(returned) :
           returned[i].type = "morse_char"
           => /\ returned[i].value \in DOMAIN CHAR_TO_MORSE
              /\ MORSE_TABLE[CHAR_TO_MORSE[returned[i].value]] = returned[i].value

\* The decoder has looked up a four-element code and returned its letter,
\* whose reverse lookup is that code.
C26_Witness ==
    /\ \E i \in 1..Len(returned) : returned[i] = Event("morse_char", "B")
    /\ CHAR_TO_MORSE["B"] = <<"-", ".", ".", ".">>

DecoderEvents(q) ==
    SelectSeq(q, LAMBDA e : e.type \in {"morse_element", "morse_char",
                                        "morse_space", "morse_gap"})

\* The processing loop leaves its loop in this step.
LoopExits == thread.loop_pc # "done" /\ thread'.loop_pc = "done"

\* C28: events reach the output queue in the order the windows are
\* consumed: a step that takes a chunk from the raw buffer appends to the
\* decoder events of the output queue exactly what process_block returned
\* for that chunk, in order; the step in which the processing loop exits
\* (stop, shutdown command, end of stream, exception) appends the events of
\* flush() and then one 'stopped' status event, after at most the info event
\* that reports the reason; and once the loop has exited no step of the
\* runner adds anything to the output queue.
C28_ConsumptionOrder ==
    /\ [][LoopGet /\ Head(thread.raw_queue) # EndOfStream
            => DecoderEvents(output_queue')
                   = DecoderEvents(output_queue) \o Decoded]_vars
    /\ [][LoopExits
            => \E info \in {<<>>, <<Event("info", "pcm")>>} :
                   output_queue' = output_queue \o info \o flush(decoder).ev
                                   \o <<Event("status", "stopped")>>]_vars
    /\ [][thread.loop_pc = "done"
            => \/ output_queue' = output_queue
               \/ output_queue # <<>> /\ output_queue' = Tail(output_queue)]_vars

\* The distance of two frequencies.
Apart(f, g) == IF f >= g THEN f - g ELSE g - f

\* C30: the active tone frequency stays within 240 Hz of the anchor
\* frequency fixed at construction and within 300..1200 Hz; it changes only
\* in a window past the warm-up whose index is a multiple of the scan
\* interval, by at most 10.5 Hz, and never in a decoder with tone_lock set
\* or auto_tone_track off; the anchor never changes.
C30_ToneTracking ==
    /\ [](/\ Apart(decoder.active_tone_freq, decoder.tone_anchor_freq) <= Hz(240)
          /\ decoder.active_tone_freq \in Hz(300)..Hz(1200))
    /\ [][decoder'.tone_anchor_freq = decoder.tone_anchor_freq]_vars
    /\ [][decoder'.active_tone_freq # decoder.active_tone_freq
            => /\ decoder'.blocks_processed > _WARMUP_BLOCKS
               /\ decoder'.blocks_processed % _tone_scan_interval_blocks = 0
               /\ decoder'.blocks_processed # decoder.blocks_processed
               /\ Apart(decoder'.active_tone_freq, decoder.active_tone_freq) <= 105
               /\ decoder.auto_tone_track
               /\ ~decoder.tone_lock]_vars

\* The tracker has followed a carrier upwards as far as it may go from the
\* default anchor.
C30_Witness ==
    /\ decoder.tone_anchor_freq = Hz(700)
    /\ decoder.active_tone_freq = Hz(940)
    /\ decoder.blocks_processed % _tone_scan_interval_blocks = 0

\* ------------------------------------------- the dit estimator of a decoder
\* Keying in one chunk: a tone of n windows, then m windows of silence.
KeyTones == {2, 9, 16}
KeyGaps == {1, 3, 30}

\* process_block on the windows that fill the warm-up.
DecoderWarmUp ==
    /\ decoder.blocks_processed = 0
    /\ decoder' = process_block(decoder, Rep("low", _WARMUP_BLOCKS)).d
    /\ returned' = process_block(decoder, Rep("low", _WARMUP_BLOCKS)).ev
    /\ UNCHANGED <<route_vars, stream, thread, output_queue>>

\* process_block on one chunk of keying past the warm-up.
DecoderKey(n, m) ==
    /\ decoder.blocks_processed >= _WARMUP_BLOCKS
    /\ LET r == Only({process_block(decoder, c) : c \in {Rep("high", n) \o Rep("low", m)}})
       IN  /\ Len(r.d.current_symbol) <= MaxSymbol
           /\ decoder' = r.d
           /\ returned' = r.ev
    /\ UNCHANGED <<route_vars, stream, thread, output_queue>>

NextWpm ==
    \/ DecoderWarmUp
    \/ \E n \in KeyTones, m \in KeyGaps : DecoderKey(n, m)
    \/ DecoderReset
    \/ DecoderFlush

\* Decoders at 15 WPM in either speed mode, with and without the speed lock.
InitWpm ==
    InitRoutes /\ InitThread({"silent"},
                             {WpmDecoder(15, wpm_mode, wpm_lock) :
                                  wpm_mode \in {"manual", "auto"}, wpm_lock \in BOOLEAN})

SpecWpm == InitWpm /\ [][NextWpm]_vars

\* C31: in manual WPM mode, or with the speed lock set, the dit is the
\* configured one (1.2 / WPM seconds, 60 / WPM windows) for the whole session:
\* no dit candidate is ever recorded, the dah, minimum-tone, character-gap
\* and word-gap thresholds are the same at every window, and the metrics a
\* scope event reports are the configured speed and dit.
C31_FixedDit ==
    FixedWpm(decoder) =>
        /\ decoder.dit_observations = <<>>
        /\ decoder.dit_blocks = 18000 \div decoder.wpm
        /\ _dah_threshold(decoder) = (22 * 18000) \div (10 * decoder.wpm)
        /\ _dit_min(decoder) = (38 * 18000) \div (100 * decoder.wpm)
        /\ _char_gap(decoder) = (26 * 18000) \div (10 * decoder.wpm)
        /\ _word_gap(decoder) = (6 * 18000) \div decoder.wpm
        /\ decoder.estimated_wpm = 1000 * decoder.wpm
        /\ \A i \in DOMAIN returned :
              returned[i].type = "scope" =>
                  /\ returned[i].wpm = 10 * decoder.wpm
                  /\ returned[i].dit_ms = 12000 \div decoder.wpm

\* A decoder in auto mode with the speed lock set has just taken a tone of 8
\* windows, twice its dit, as a dit and recorded nothing.
C31_Witness ==
    /\ decoder.wpm_mode = "auto"
    /\ decoder.wpm_lock
    /\ Len(returned) = 2
    /\ returned[1] = Event("morse_element", ".")
    /\ Len(returned[2].amplitudes) = 9 + 3
    /\ decoder.dit_observations = <<>>

\* The speed and the dit of one report agree: wpm (tenths) is 1.2 s over
\* dit_ms (tenths of a millisecond), within a tenth.
SpeedMatchesDit(wpm, dit_ms) ==
    /\ (wpm - 1) * dit_ms <= 120000
    /\ 120000 <= (wpm + 1) * dit_ms

\* C32: in auto WPM mode the dit candidates never exceed the length of the
\* deque, every candidate lies in (0, 20] windows, the dit estimate is at
\* least one window, and the WPM reported in the metrics and in every scope
\* event lies within [5, 60] and is 1.2 s over the reported dit.
C32_WpmEstimate ==
    ~FixedWpm(decoder) =>
        /\ Len(decoder.dit_observations) <= DitObservationsMax
        /\ \A i \in DOMAIN decoder.dit_observations :
              /\ decoder.dit_observations[i] > 0
              /\ decoder.dit_observations[i] <= 20 * 300
        /\ _effective_dit_blocks(decoder) >= 300
        /\ decoder.estimated_wpm >= 5000
        /\ decoder.estimated_wpm <= 60000
        /\ SpeedMatchesDit((decoder.estimated_wpm + 50) \div 100,
                           (4 * _effective_dit_blocks(decoder) + 3) \div 6)
        /\ \A i \in DOMAIN returned :
              returned[i].type = "scope" =>
                  /\ returned[i].wpm >= 50
                  /\ returned[i].wpm <= 600
                  /\ SpeedMatchesDit(returned[i].wpm, returned[i].dit_ms)

\* The call that led to this state was process_block on windows past the
\* warm-up.
AnalysedPastWarmUp ==
    /\ decoder.blocks_processed >= _WARMUP_BLOCKS
    /\ returned' # <<>>
    /\ returned'[Len(returned')].type = "scope"

\* C33: past the warm-up an off tone turns on only in a call with a window at
\* or above snr_on, an on tone turns off only in a call with a window below
\* snr_off, and a call whose windows all lie between the two keeps the tone
\* state and returns no event but the scope event.
C33_Hysteresis ==
    [][AnalysedPastWarmUp =>
          LET amplitudes == returned'[Len(returned')].amplitudes
          IN  /\ (~decoder.tone_on /\ decoder'.tone_on)
                     => \E i \in DOMAIN amplitudes : amplitudes[i] = "high"
              /\ (decoder.tone_on /\ ~decoder'.tone_on)
                     => \E i \in DOMAIN amplitudes : amplitudes[i] = "low"
              /\ (\A i \in DOMAIN amplitudes : amplitudes[i] = "mid")
                     => /\ decoder'.tone_on = decoder.tone_on
                        /\ decoder'.current_symbol = decoder.current_symbol
                        /\ Len(returned') = 1]_vars

\* A tone that is on has been through two windows inside the band: it is
\* still on and the call returned the scope event alone.
C33_Witness ==
    /\ decoder.tone_on
    /\ decoder.tone_blocks >= 2
    /\ returned = <<DecoderScope(decoder, <<"mid", "mid">>)>>

ControlEntries == {"reset", "shutdown", "stop", "unknown", "not a dict"}

\* control_queue.put_nowait(entry) by the owner of the thread.
ThreadControl(entry) ==
    /\ Len(thread.control_queue) < ControlQueueMax
    /\ thread' = [thread EXCEPT !.control_queue = Append(@, entry)]
    /\ UNCHANGED <<route_vars, decoder, returned, stream, output_queue>>

NextControl ==
    \/ ReaderCheck
    \/ ReaderSelect({Keyed})
    \/ ReaderPush
    \/ ReaderEvict
    \/ LoopDrain
    \/ LoopGet
    \/ LoopTimeout
    \/ \E entry \in ControlEntries : ThreadControl(entry)
    \/ Consume

\* One decoder thread on a capture process that writes, with an owner that
\* posts control entries and never sets the stop event.
InitControl == InitRoutes /\ InitThread({"live"}, {NewDecoder(50)})

SpecControl == InitControl /\ [][NextControl]_vars

\* The processing loop decodes a chunk in this step.
DecodesChunk ==
    /\ thread.loop_pc = "get"
    /\ thread'.loop_pc = "drain"
    /\ Len(thread'.raw_queue) < Len(thread.raw_queue)

\* C35: control entries are taken out of the queue only by the processing
\* loop at the top of an iteration; no chunk is decoded while a 'reset' is
\* queued and none once a 'shutdown' or a 'stop' is queued; the step that
\* applies the entries leaves the reader alone; and entries that are not
\* commands, or not known, never end the loop.
C35_ControlCommands ==
    [][/\ (\A entry \in ControlEntries : thread'.control_queue
                  # Append(thread.control_queue, entry))
          /\ thread'.control_queue # thread.control_queue
              => /\ thread.loop_pc = "drain"
                 /\ thread'.control_queue = <<>>
                 /\ thread'.reader_pc = thread.reader_pc
                 /\ thread'.reader_done = thread.reader_done
                 /\ thread'.raw_queue = thread.raw_queue
                 /\ thread'.held = thread.held
                 /\ "reset" \in Range(thread.control_queue)
                        => decoder'.blocks_processed = 0
                 /\ Range(thread.control_queue) \subseteq {"reset", "unknown", "not a dict"}
                        => thread'.loop_pc = "get" /\ ~thread'.stop_event
                 /\ Range(thread.control_queue) \cap {"shutdown", "stop"} # {}
                        => thread'.loop_pc = "done"
       /\ DecodesChunk
              => Range(thread.control_queue) \cap {"reset", "shutdown", "stop"} = {}]_vars

\* ------------------------------------------------ the end of the stream
\* raw_queue.get found nothing for its whole timeout: the except branch up to
\* the heartbeat. LoopTimeout is this step and LoopReaderDone taken with no
\* step of the reader in between.
LoopEmpty ==
    /\ thread.loop_pc = "get"
    /\ thread.raw_queue = <<>>
    /\ LET now == [thread EXCEPT
                      !.last_pcm_at = IF @ = NoTime THEN NoTime
                                      ELSE Later(@, STALLED_AFTER_DATA_SECONDS),
                      !.last_waiting_emit = Later(@, WAITING_INTERVAL),
                      !.last_scope = Later(@, SCOPE_INTERVAL)]
           should_emit_waiting ==
               \/ now.last_pcm_at = NoTime
               \/ now.last_pcm_at >= STALLED_AFTER_DATA_SECONDS
           emit == should_emit_waiting /\ now.last_waiting_emit >= WAITING_INTERVAL
       IN  /\ thread' = [now EXCEPT
                            !.loop_pc = "empty",
                            !.waiting_since = @ \/ should_emit_waiting,
                            !.last_waiting_emit = IF emit THEN 0 ELSE @]
           /\ output_queue' = IF emit THEN _emit_waiting_scope(output_queue)
                              ELSE output_queue
    /\ UNCHANGED <<route_vars, decoder, returned, stream>>

\* if reader_done.is_set(): break, else continue
LoopReaderDone ==
    /\ thread.loop_pc = "empty"
    /\ IF thread.reader_done
       THEN LoopFinally(thread, decoder, output_queue)
       ELSE /\ thread' = [thread EXCEPT !.loop_pc = "drain"]
            /\ UNCHANGED <<decoder, output_queue>>
    /\ UNCHANGED <<route_vars, returned, stream>>

NextEof ==
    \/ ReaderCheck
    \/ ReaderSelect({Keyed})
    \/ ReaderPush
    \/ ReaderEvict
    \/ LoopDrain
    \/ LoopGet
    \/ LoopEmpty
    \/ LoopReaderDone
    \/ StreamCloses
    \/ Consume

\* One decoder thread on a capture process that writes and then closes its
\* output; nobody sets the stop event or posts a command.
InitEof == InitRoutes /\ InitThread({"live"}, {NewDecoder(50)})

SpecEof == InitEof /\ [][NextEof]_vars

\* C36: when the capture output ends and nobody has stopped the thread, the
\* processing loop does not exit while a chunk the reader put in the buffer
\* is still there: every chunk that was not evicted has been decoded.
C36_NoLossAtEof ==
    thread.loop_pc = "done" =>
        \A i \in DOMAIN thread.raw_queue : thread.raw_queue[i] = EndOfStream

\* ------------------------------------------ the sample buffer of a decoder
\* The samples of an analysis window (160 in the source) and the longest
\* byte stream fed.
BlockSamples == 2
MaxBytes == 7

\* struct.unpack('<nh', pcm_bytes[:n * 2]) with n = len(pcm_bytes) // 2: a
\* sample is a pair of bytes, low byte first.
Unpack(pcm_bytes) ==
    [i \in 1..(Len(pcm_bytes) \div 2) |-> <<pcm_bytes[2 * i - 1], pcm_bytes[2 * i]>>]

\* The sample path of process_block: the samples of the chunk are appended
\* to _pending_buffer and every complete window is taken off its front.
\* blocks are the windows this call analysed.
process_block_samples(d, pcm_bytes) ==
    LET pending == d.pending_buffer \o Unpack(pcm_bytes)
        n == Len(pending) \div BlockSamples
    IN  [d |-> [d EXCEPT !.pending_buffer =
                    SubSeq(pending, n * BlockSamples + 1, Len(pending))],
         blocks |-> [k \in 1..n |-> SubSeq(pending, (k - 1) * BlockSamples + 1,
                                           k * BlockSamples)]]

\* The byte streams a capture process may write.
ByteStreams == SeqsUpTo({0, 1}, MaxBytes) \ {<<>>}

\* One read of the capture output hands the next k bytes to process_block.
FeedBytes(k) ==
    /\ stream.fed < Len(stream.pcm)
    /\ LET upto == Min2(stream.fed + k, Len(stream.pcm))
           r == process_block_samples(decoder, SubSeq(stream.pcm, stream.fed + 1, upto))
       IN  /\ decoder' = r.d
           /\ returned' = r.blocks
           /\ thread' = [thread EXCEPT !.analysed = @ \o r.blocks]
           /\ stream' = [stream EXCEPT !.fed = upto]
    /\ UNCHANGED <<route_vars, output_queue>>

NextBytes == \E k \in 1..MaxBytes : FeedBytes(k)

\* A fresh decoder and a byte stream of which nothing has been read.
InitBytes ==
    /\ InitRoutes
    /\ decoder = NewDecoder(15)
    /\ returned = <<>>
    /\ stream \in {[pcm |-> pcm_bytes, fed |-> 0] : pcm_bytes \in ByteStreams}
    /\ thread = [analysed |-> <<>>]
    /\ output_queue = <<>>

SpecBytes == InitBytes /\ [][NextBytes]_vars

\* The windows one call of process_block on the whole stream analyses.
OneCall == process_block_samples(NewDecoder(15), stream.pcm).blocks

\* C37: however the byte stream is cut into process_block calls, the windows
\* analysed so far are the first windows the whole stream gives in one call,
\* and all of them once the whole stream has been fed.
C37_ChunkBoundaries ==
    /\ Len(thread.analysed) <= Len(OneCall)
    /\ \A i \in DOMAIN thread.analysed : thread.analysed[i] = OneCall[i]
    /\ stream.fed = Len(stream.pcm) => thread.analysed = OneCall

\* The events of a result without its scope events.
NonScope(ev) == SelectSeq(ev, LAMBDA e : e.type # "scope")

\* C39: in the events of one decoding every Space comes after an Element that
\* is later than the previous Space, directly after the Char of the symbol it
\* closes (or, when that symbol is not in the table, after its last Element
\* and the gap), and the decoded text has neither a leading space nor two
\* spaces in a row.
C39_SpaceAfterSymbol ==
    Decoded_File =>
        LET ev == NonScope(returned)
            text == TextOf(returned)
        IN  /\ \A i \in DOMAIN ev :
                  ev[i].type = "morse_space" =>
                      /\ \E j \in 1..(i - 1) :
                            /\ ev[j].type = "morse_element"
                            /\ \A k \in (j + 1)..(i - 1) : ev[k].type # "morse_space"
                      /\ ev[i - 1].type \in {"morse_char", "morse_element"}
            /\ text # <<>> => text[1] # " "
            /\ \A i \in 1..(Len(text) - 1) : ~(text[i] = " " /\ text[i + 1] = " ")

\* ------------------------------------------ workers that outlive their stop
\* A worker thread whose join timed out in stop_morse goes on after the stop
\* has returned: the stderr monitor publishes the next line of a capture
\* process that is still there, the multimon output thread publishes the rest
\* of its buffer when it leaves its loop. The worker publishes to the one
\* event queue of the application.
StaleWorker(r) ==
    /\ req[r].op = "stop"
    /\ req[r].pc = "done"
    /\ req[r].alive \cap {"relay_thread", "decoder_thread", "stderr_thread"} # {}
    /\ morse_queue' = _queue_morse_event(morse_queue, InfoPayload("from a stopped session"))
    /\ UNCHANGED <<morse_state, morse_state_message, morse_last_error, morse_session_id,
                   morse_active_device, morse_runtime_config, morse_process,
                   morse_workers, morse_lock, sdr_device_registry, att, req>>
    /\ UNCHANGED thread_vars

NextStale ==
    \/ \E r \in Requests :
          \/ StartMorse_Request(r, {DefaultData})
          \/ StartMorse_Begin(r)
          \/ StartMorse_Attempt(r, {"pcm", "timeout"})
          \/ StartMorse_Cleanup(r)
          \/ StartMorse_Commit(r)
          \/ StopMorse_Detach(r)
          \/ StopMorse_Teardown(r)
          \/ StopMorse_Idle(r, CoreStragglers)
          \/ StaleWorker(r)
    \/ MorseStream

\* Two request threads starting and stopping sessions on device 0, and the
\* consumer of the event queue.
SpecStale == Init /\ [][NextStale]_vars

\* C38: while a session is starting or running, that is after its start has
\* drained the event queue and published Starting, the queue holds no event
\* of a worker of an earlier session.
C38_NoStaleEvent ==
    morse_state \in {MORSE_STARTING, MORSE_RUNNING} =>
        \A i \in DOMAIN morse_queue :
            morse_queue[i] # InfoPayload("from a stopped session")

\* ------------------------------------------- the pseudo-terminal master
\* Attempts launched one after another, each with its pseudo-terminal.
MaxPty == 3

\* pty.openpty(): the master takes the lowest descriptor number that is not
\* open. table maps a number to the attempt that holds it open, 0 when closed.
openpty(table) ==
    CHOOSE fd \in DOMAIN table :
        table[fd] = 0 /\ \A lower \in DOMAIN table : lower < fd => table[lower] # 0

\* os.close(fd) under contextlib.suppress(OSError): the number is closed
\* whoever holds it; closing a closed number raises and is swallowed.
os_close(table, fd) == [table EXCEPT ![fd] = 0]

\* One pass of the attempt loop up to the output thread's start: openpty,
\* the slave handed to multimon-ng and closed, then the thread on master_fd.
\* With started FALSE Popen raised and no thread was created.
PtyAttempt(started) ==
    /\ Len(thread) < MaxPty
    /\ IF thread = <<>> THEN TRUE ELSE thread[Len(thread)].torn
    /\ LET master_fd == openpty(stream)
       IN  /\ stream' = [stream EXCEPT ![master_fd] = Len(thread) + 1]
           /\ thread' = Append(thread,
                               [master_fd |-> master_fd,
                                out |-> IF started THEN "running" ELSE "none",
                                torn |-> FALSE, closes |-> 0, stray |-> FALSE])
    /\ UNCHANGED <<route_vars, decoder, returned, output_queue>>

\* _cleanup_attempt and stop_morse: stop event, os.close(master_fd),
\* processes terminated, the output thread joined for a bounded time.
PtyTeardown(k) ==
    /\ k \in DOMAIN thread
    /\ ~thread[k].torn
    /\ stream' = os_close(stream, thread[k].master_fd)
    /\ thread' = [thread EXCEPT
                     ![k].torn = TRUE,
                     ![k].closes = @ + 1,
                     ![k].stray = @ \/ stream[thread[k].master_fd] \notin {0, k}]
    /\ UNCHANGED <<route_vars, decoder, returned, output_queue>>

\* The output thread leaves its loop (stop event, end of the process, a
\* failed select or read) and closes master_fd in its finally block.
_morse_multimon_output_thread(k) ==
    /\ k \in DOMAIN thread
    /\ thread[k].out = "running"
    /\ stream' = os_close(stream, thread[k].master_fd)
    /\ thread' = [thread EXCEPT
                     ![k].out = "ended",
                     ![k].closes = @ + 1,
                     ![k].stray = @ \/ stream[thread[k].master_fd] \notin {0, k}]
    /\ UNCHANGED <<route_vars, decoder, returned, output_queue>>

NextPty ==
    \/ \E started \in BOOLEAN : PtyAttempt(started)
    \/ \E k \in 1..MaxPty : PtyTeardown(k)
    \/ \E k \in 1..MaxPty : _morse_multimon_output_thread(k)

\* No attempt yet, every descriptor number of the table closed.
InitPty ==
    /\ InitRoutes
    /\ decoder = NewDecoder(15)
    /\ returned = <<>>
    /\ stream = [fd \in 1..MaxPty |-> 0]
    /\ thread = <<>>
    /\ output_queue = <<>>

SpecPty == InitPty /\ [][NextPty]_vars

\* C40: os.close is called at most once on the master descriptor of an
\* attempt, and never while the number is open for another attempt.
C40_ClosedOnce ==
    \A k \in DOMAIN thread : thread[k].closes <= 1 /\ ~thread[k].stray

====
